---- MODULE Spec2Model ----
(***************************************************************************)
(* A model of src/oracle_analyzer.py (OracleMultiDatabaseAnalyzer): the    *)
(* capability classifier (check_dba_privileges), the scope resolution of   *)
(* run_ora2pg_analysis / get_all_schemas_for_dba, and the persistence of   *)
(* save_to_postgresql into the tier-partitioned PostgreSQL tables.         *)
(*                                                                         *)
(* Encoding of values read from the JSON configuration: a value is the     *)
(* text of its JSON literal, so that the JSON boolean true ("true") and    *)
(* the JSON string "true" ("'true'") stay different; NoKey stands for a    *)
(* key that is absent from the dictionary.                                 *)
(***************************************************************************)
EXTENDS Integers, Sequences, FiniteSets, TLC

VARIABLES
    \* ---- one call of check_dba_privileges / run_ora2pg_analysis
    db_config,          \* the profile (dictionary) handed to the call
    is_dba,             \* check_dba_privileges' result; run_ora2pg_analysis' argument
    cpc,                \* position inside check_dba_privileges
    dba_score,          \* local dba_score
    test_no,            \* index of the next entry of dba_tests
    executed,           \* outcomes of the probe queries executed so far, in order
    spc,                \* position inside run_ora2pg_analysis
    scope_env,          \* what the instance answered during the scope resolution
    target_schema,      \* local target_schema (None or the configured schema)
    analyzed_schemas,   \* local analyzed_schemas
    temp_connection,    \* the temporary connection of the DBA branch
    enum_queries,       \* number of executions of the dba_objects enumeration query
    conf_schema,        \* the SCHEMA directive written to the ora2pg configuration
    \* ---- run_analysis / save_to_postgresql and the PostgreSQL store
    analyze_sizes,      \* self.analyze_sizes of the current execution
    results,            \* the item of all_results the loop is working on
    seen,               \* connection names of the items the loop has taken
    pc,                 \* position inside run_analysis / save_to_postgresql
    connection_id,      \* local connection_id
    deleted_count,      \* cleanup_existing_data: rows deleted from each table
    console,            \* what save_to_postgresql and the final report printed
    pdt_connections,    \* rows of oracle_migration.pdt_connections
    serial,             \* next value of the pdt_connections id sequence
    tables,             \* rows of every other table of oracle_migration
    \* ---- one call of _execute_dependency_queries / _execute_size_queries
    xpc,                \* position inside the extraction
    extraction,         \* which of the two extractions runs
    queries,            \* the items of `queries` the loop has not reached yet
    query_results,      \* local results (without the is_dba entry)
    answered,           \* the queries executed so far with what the instance did
    \* ---- one call of _execute_ora2pg_command / parse_ora2pg_report
    ppc,                \* position inside the call
    ora2pg_output_mode, \* self.ora2pg_output_mode
    reports,            \* the report files the ora2pg commands leave on disk
    returncode,         \* the return codes of the two ora2pg commands
    html_file,          \* parse_ora2pg_report's argument html_file
    txt_file,           \* parse_ora2pg_report's argument txt_file
    metrics,            \* parse_ora2pg_report's local metrics
    \* ---- run_analysis / analyze_database, one profile after the other
    oracle_connections, \* self.oracle_connections
    conn_no,            \* the loop index i of run_analysis
    apc,                \* position inside run_analysis / analyze_database
    db_results,         \* analyze_database's local results
    all_results,        \* run_analysis' local all_results, in insertion order
    trace,              \* the calls made so far: which profile, which step
    summary             \* the entries of the summary report

clsVars   == <<cpc, dba_score, test_no, executed>>
scopeVars == <<spc, scope_env, target_schema, analyzed_schemas, temp_connection,
               enum_queries, conf_schema>>
callVars  == <<db_config, is_dba>>
runVars   == <<analyze_sizes, results, seen, pc, connection_id, deleted_count,
               console>>
storeVars == <<pdt_connections, serial, tables>>
extVars   == <<xpc, extraction, queries, query_results, answered>>
parseVars == <<ppc, ora2pg_output_mode, reports, returncode, html_file, txt_file,
               metrics>>
anaVars   == <<oracle_connections, conn_no, apc, db_results, all_results, trace,
               summary>>
vars      == <<callVars, clsVars, scopeVars, runVars, storeVars, extVars,
               parseVars, anaVars>>

-----------------------------------------------------------------------------
(* Generic helpers                                                         *)

NoKey == "<absent>"
None  == "<None>"

Raise == -1     \* outcome of a query whose execute()/fetchone() raises

RECURSIVE SumSeq(_)
SumSeq(s) == IF s = <<>> THEN 0 ELSE Head(s) + SumSeq(Tail(s))

\* dict.get(key, default)
Get(d, key, default) == IF d[key] = NoKey THEN default ELSE d[key]

\* Python truthiness of a configuration value
Truthy(v) == v \notin {NoKey, None, "null", "false", "''", "0"}

\* the fields of a profile that the modelled code reads
Profile(name, user, dsn, schema, dba, all) ==
    [connection_name |-> name, user |-> user, dsn |-> dsn, schema |-> schema,
     is_dba_cfg |-> dba, analyze_all_schemas |-> all]

-----------------------------------------------------------------------------
(* check_dba_privileges                                                    *)

MaxCount == 1   \* largest COUNT(*) a probe query returns in the model

ProbeOutcomes == {Raise} \cup (0 .. MaxCount)

\* the values the "is_dba" key takes in the configuration
IsDbaValues == {NoKey, "'auto'", "true", "false", "'true'", "'false'", "1", "null"}

dba_tests == << "Ruolo DBA", "Accesso DBA_USERS", "Utente amministrativo",
                "Privilegio SELECT ANY TABLE" >>

total_tests == Len(dba_tests)

DbaThreshold == 2

isinstance_bool_never(v) == FALSE

isinstance_bool_or_text(v) == v \in {"true", "false", "'true'", "'false'"}

\* isinstance(db_config['is_dba'], bool)
isinstance_bool(v) == v \in {"true", "false"}

\* lines 235-244: the configuration decides alone
ManualOverride(cfg) ==
    /\ cfg.is_dba_cfg # NoKey
    /\ cfg.is_dba_cfg # "'auto'"
    /\ isinstance_bool(cfg.is_dba_cfg)

\* line 270: result > 0 (a raising probe never gets there)
TestPassed(outcome) == outcome > 0

DbaDecision_strict(score) == score > DbaThreshold

\* line 279
DbaDecision(score) == score >= DbaThreshold

\* lines 228-247: the cursor, SELECT USER FROM DUAL, the manual configuration
check_dba_privileges_enter ==
    /\ cpc = "call"
    /\ \E user_ok \in BOOLEAN :
         IF ~user_ok
         THEN /\ cpc' = "raised"
              /\ UNCHANGED <<is_dba, dba_score, test_no>>
         ELSE IF ManualOverride(db_config)
         THEN /\ is_dba' = (db_config.is_dba_cfg = "true")
              /\ cpc' = "returned"
              /\ UNCHANGED <<dba_score, test_no>>
         ELSE /\ cpc' = "tests"
              /\ dba_score' = 0
              /\ test_no' = 1
              /\ UNCHANGED is_dba
    /\ UNCHANGED <<db_config, executed, scopeVars, runVars, storeVars,
                   extVars,
                   parseVars,
                   anaVars>>

\* lines 266-276: one iteration of the loop over dba_tests
run_dba_test ==
    /\ cpc = "tests"
    /\ test_no <= total_tests
    /\ \E outcome \in ProbeOutcomes :
         /\ executed' = Append(executed, outcome)
         /\ dba_score' = IF outcome # Raise /\ TestPassed(outcome)
                         THEN dba_score + 1 ELSE dba_score
    /\ test_no' = test_no + 1
    /\ UNCHANGED <<db_config, is_dba, cpc, scopeVars, runVars, storeVars,
                   extVars,
                   parseVars,
                   anaVars>>

\* lines 278-285
check_dba_privileges_return ==
    /\ cpc = "tests"
    /\ test_no > total_tests
    /\ is_dba' = DbaDecision(dba_score)
    /\ cpc' = "returned"
    /\ UNCHANGED <<db_config, dba_score, test_no, executed, scopeVars, runVars,
                   storeVars,
                   extVars,
                   parseVars,
                   anaVars>>

-----------------------------------------------------------------------------
(* run_ora2pg_analysis (scope resolution) and get_all_schemas_for_dba      *)

\* the non-system schemas of the instance that own objects, in the order of
\* the query's ORDER BY owner
InstanceSchemas == << "APP", "HR", "SALES" >>

Users == {"APP", "SCOTT"}

SchemaValues == {NoKey, "''", "HR"}

AnalyzeAllValues == {NoKey, "true", "false"}

MaxSchemaList == 10

RECURSIVE Pick(_, _)
\* the subsequence of s at the positions of the set keep
Pick(s, keep) ==
    IF s = <<>> THEN <<>>
    ELSE LET rest == Pick(Tail(s), {k - 1 : k \in keep \ {1}})
         IN  IF 1 \in keep THEN <<Head(s)>> \o rest ELSE rest

\* what the enumeration query can answer: it raises, or it returns rows
EnumAnswers ==
    {[raises |-> TRUE, rows |-> <<>>]} \cup
    {[raises |-> FALSE, rows |-> Pick(InstanceSchemas, keep)] :
        keep \in SUBSET (1 .. Len(InstanceSchemas))}

\* the behaviour of the temporary connection during one call:
\* cursor_ok: connection.cursor() works; enum: the enumeration query's answer;
\* user_ok[k]: the k-th execution of SELECT USER FROM DUAL works
EnumEnvs ==
    [cursor_ok : BOOLEAN, enum : EnumAnswers, user_ok : [1 .. 2 -> BOOLEAN]]

\* SELECT USER FROM DUAL on a session authenticated as username
SessionUser(username) == username

Returned(schemas, q) == [raised |-> FALSE, schemas |-> schemas, queried |-> q]
Raised(q)            == [raised |-> TRUE, schemas |-> <<>>, queried |-> q]

\* the environment in which every call to the instance works
NominalEnv ==
    [connect_ok |-> TRUE, close_ok |-> TRUE,
     env |-> [cursor_ok |-> TRUE, user_ok |-> [k \in 1 .. 2 |-> TRUE],
              enum |-> [raises |-> FALSE, rows |-> InstanceSchemas]]]

get_all_schemas_for_dba_always_all(cfg, env) ==
    IF ~env.cursor_ok THEN Raised(0)
    ELSE IF env.enum.raises
    THEN IF env.user_ok[1] THEN Returned(<<SessionUser(cfg.user)>>, 1) ELSE Raised(1)
    ELSE IF env.enum.rows = <<>>
    THEN IF env.user_ok[1] \/ env.user_ok[2]
         THEN Returned(<<SessionUser(cfg.user)>>, 1) ELSE Raised(1)
    ELSE Returned(env.enum.rows, 1)

get_all_schemas_for_dba_no_empty_check(cfg, env) ==
    IF ~env.cursor_ok THEN Raised(0)
    ELSE IF ~Truthy(Get(cfg, "analyze_all_schemas", "true"))
    THEN IF env.user_ok[1] THEN Returned(<<SessionUser(cfg.user)>>, 0) ELSE Raised(0)
    ELSE IF env.enum.raises
    THEN IF env.user_ok[1] THEN Returned(<<SessionUser(cfg.user)>>, 1) ELSE Raised(1)
    ELSE Returned(env.enum.rows, 1)

\* lines 1010-1058; the result is the returned list, or the exception, and
\* the number of times the enumeration query was executed
get_all_schemas_for_dba(cfg, env) ==
    LET analyze_all  == Get(cfg, "analyze_all_schemas", "true")
        current_user == SessionUser(cfg.user)
    IN  IF ~env.cursor_ok THEN Raised(0)
        ELSE IF ~Truthy(analyze_all)
        THEN IF env.user_ok[1] THEN Returned(<<current_user>>, 0) ELSE Raised(0)
        ELSE IF env.enum.raises
        THEN \* except branch, lines 1052-1058
             IF env.user_ok[1] THEN Returned(<<current_user>>, 1) ELSE Raised(1)
        ELSE IF env.enum.rows = <<>>
        THEN \* lines 1042-1048, and the except branch when that fails
             IF env.user_ok[1] \/ env.user_ok[2]
             THEN Returned(<<current_user>>, 1) ELSE Raised(1)
        ELSE Returned(env.enum.rows, 1)

ExplicitSchema_never(cfg) == FALSE

\* line 1551: 'schema' in db_config and db_config['schema']
ExplicitSchema(cfg) == cfg.schema # NoKey /\ Truthy(cfg.schema)

\* the behaviour of the instance during one scope resolution:
\* connect_ok: get_db_connection works; close_ok: temp_connection.close() works
ScopeEnvs == [connect_ok : BOOLEAN, env : EnumEnvs, close_ok : BOOLEAN]

Scope(target, schemas, temp, queried) ==
    [target_schema |-> target, analyzed_schemas |-> schemas,
     temp_connection |-> temp, queried |-> queried]

\* lines 1545-1581: target_schema and analyzed_schemas, with the state the
\* temporary connection is left in and the number of enumeration queries
run_ora2pg_scope(cfg, dba, e) ==
    IF ExplicitSchema(cfg)
    THEN Scope(cfg.schema, <<cfg.schema>>, "none", 0)
    ELSE IF dba
    THEN IF ~e.connect_ok
         THEN Scope(None, <<cfg.user>>, "none", 0)          \* lines 1574-1577
         ELSE LET r == get_all_schemas_for_dba(cfg, e.env)
              IN  IF r.raised
                  THEN Scope(None, <<cfg.user>>, "open", r.queried)
                  ELSE IF ~e.close_ok
                  THEN Scope(None, <<cfg.user>>, "open", r.queried)
                  ELSE Scope(None, r.schemas, "closed", r.queried)
    ELSE Scope(None, <<cfg.user>>, "none", 0)               \* lines 1578-1581

\* lines 1545-1581 of run_ora2pg_analysis
resolve_scope ==
    /\ spc = "call"
    /\ \E e \in ScopeEnvs :
         LET r == run_ora2pg_scope(db_config, is_dba, e)
         IN  /\ scope_env' = e
             /\ target_schema' = r.target_schema
             /\ analyzed_schemas' = r.analyzed_schemas
             /\ temp_connection' = r.temp_connection
             /\ enum_queries' = r.queried
    /\ spc' = "resolved"
    /\ UNCHANGED <<callVars, clsVars, conf_schema, runVars, storeVars,
                   extVars,
                   parseVars,
                   anaVars>>

\* lines 1600-1716: the SCHEMA directive of the generated configuration
SchemaDirective(target, dba, schemas, username) ==
    IF target # None THEN <<target>>
    ELSE IF dba /\ Len(schemas) > 1
    THEN IF Len(schemas) <= MaxSchemaList THEN schemas
         ELSE <<username, "+ALL_SCHEMA">>
    ELSE <<schemas[1]>>

\* lines 1583-1723
write_ora2pg_conf ==
    /\ spc = "resolved"
    /\ conf_schema' = SchemaDirective(target_schema, is_dba, analyzed_schemas,
                                      db_config.user)
    /\ spc' = "conf_written"
    /\ UNCHANGED <<callVars, clsVars, scope_env, target_schema, analyzed_schemas,
                   temp_connection, enum_queries, runVars, storeVars,
                   extVars,
                   parseVars,
                   anaVars>>

-----------------------------------------------------------------------------
(* Text and numbers of the report parser.  A str is a sequence of          *)
(* one-character strings; the texts of the model hold letters, digits,     *)
(* blanks and punctuation, no exponent and no underscore between digits.   *)

LowerCase  == <<"a", "b", "c", "d", "e", "f", "g", "h", "i", "j", "k", "l", "m", "n", "o", "p", "q", "r", "s", "t", "u", "v", "w", "x", "y", "z">>
UpperCase  == <<"A", "B", "C", "D", "E", "F", "G", "H", "I", "J", "K", "L", "M", "N", "O", "P", "Q", "R", "S", "T", "U", "V", "W", "X", "Y", "Z">>
DigitChars == <<"0", "1", "2", "3", "4", "5", "6", "7", "8", "9">>

\* what \s and str.strip() take for white space
Whitespace == {" ", "\n", "\t"}

\* the position of c in s, 0 when it is not there
IndexIn(c, s) ==
    IF \E i \in 1 .. Len(s) : s[i] = c
    THEN CHOOSE i \in 1 .. Len(s) : s[i] = c /\ \A j \in 1 .. (i - 1) : s[j] # c
    ELSE 0

lower_char(c) ==
    IF IndexIn(c, UpperCase) > 0 THEN LowerCase[IndexIn(c, UpperCase)] ELSE c

\* str.lower()
lower(s) == [i \in 1 .. Len(s) |-> lower_char(s[i])]

IsDigit(c)  == IndexIn(c, DigitChars) > 0
IsLetter(c) == IndexIn(c, LowerCase) > 0 \/ IndexIn(c, UpperCase) > 0

\* \w
IsWord(c) == IsLetter(c) \/ IsDigit(c) \/ c = "_"

DigitValue(c) == IndexIn(c, DigitChars) - 1

RECURSIVE lstrip(_)
lstrip(s) == IF s # <<>> /\ Head(s) \in Whitespace THEN lstrip(Tail(s)) ELSE s

RECURSIVE rstrip(_)
rstrip(s) ==
    IF s # <<>> /\ s[Len(s)] \in Whitespace
    THEN rstrip(SubSeq(s, 1, Len(s) - 1)) ELSE s

\* str.strip()
strip(s) == rstrip(lstrip(s))

\* sub in s
Contains(sub, s) ==
    \E i \in 1 .. (Len(s) - Len(sub) + 1) : SubSeq(s, i, i + Len(sub) - 1) = sub

IsSpace(c) == c \in Whitespace

\* the dotted identifiers of parse_procedure_details: [a-zA-Z0-9_.]
IsIdent(c) == IsWord(c) \/ c = "."

\* the character classes \d, \s, \w and [a-zA-Z0-9_.]
InClass(c, class) ==
    CASE class = "d"     -> IsDigit(c)
      [] class = "s"     -> IsSpace(c)
      [] class = "w"     -> IsWord(c)
      [] class = "ident" -> IsIdent(c)

\* the number of consecutive characters of s from position i on that are in
\* the class (a greedy class* of a regular expression)
RECURSIVE Run(_, _, _)
Run(s, i, class) ==
    IF i <= Len(s) /\ InClass(s[i], class) THEN 1 + Run(s, i + 1, class) ELSE 0

AllDigits(s) == s # <<>> /\ \A i \in 1 .. Len(s) : IsDigit(s[i])

RECURSIVE DigitsValue(_)
DigitsValue(s) ==
    IF s = <<>> THEN 0
    ELSE 10 * DigitsValue(SubSeq(s, 1, Len(s) - 1)) + DigitValue(s[Len(s)])

RECURSIVE IntChars(_)
\* str(n) of a natural number
IntChars(n) ==
    IF n < 10 THEN << DigitChars[n + 1] >>
    ELSE Append(IntChars(n \div 10), DigitChars[(n % 10) + 1])

\* a float: NaN, an infinity, or a decimal number given by its sign, its
\* whole part and the digits of its fraction without trailing zeros
Float(kind, neg, whole, frac) ==
    [kind |-> kind, neg |-> neg, whole |-> whole, frac |-> frac]

FloatZero == Float("finite", FALSE, 0, <<>>)
NaN       == Float("nan", FALSE, 0, <<>>)

\* the stand-ins of None where a float or a str is expected
NoFloat == Float("None", FALSE, 0, <<>>)
NoText  == << "<None>" >>

RECURSIVE TrimZeros(_)
TrimZeros(s) ==
    IF s # <<>> /\ s[Len(s)] = "0" THEN TrimZeros(SubSeq(s, 1, Len(s) - 1)) ELSE s

Decimal(neg, whole, frac) ==
    LET f == TrimZeros(frac)
        w == IF whole = <<>> THEN 0 ELSE DigitsValue(whole)
    IN  Float("finite", neg /\ (w # 0 \/ f # <<>>), w, f)

\* float(n) of an integer
FloatOf(n) == Float("finite", n < 0, IF n < 0 THEN 0 - n ELSE n, <<>>)

Parsed(ok, value) == [ok |-> ok, value |-> value]

Signed(t) == t # <<>> /\ Head(t) \in {"+", "-"}

Unsigned(t) == IF Signed(t) THEN Tail(t) ELSE t

Negative(t) == t # <<>> /\ Head(t) = "-"

IntOf(neg, body) ==
    IF AllDigits(body)
    THEN Parsed(TRUE, IF neg THEN 0 - DigitsValue(body) ELSE DigitsValue(body))
    ELSE Parsed(FALSE, 0)

\* int(text): white space around, an optional sign, decimal digits
python_int(text) == IntOf(Negative(strip(text)), Unsigned(strip(text)))

DecimalOf(neg, whole, frac) ==
    IF /\ whole # <<>> \/ frac # <<>>
       /\ \A i \in 1 .. Len(whole) : IsDigit(whole[i])
       /\ \A i \in 1 .. Len(frac) : IsDigit(frac[i])
    THEN Parsed(TRUE, Decimal(neg, whole, frac))
    ELSE Parsed(FALSE, FloatZero)

FloatOfBody(neg, body, point) ==
    IF lower(body) = <<"n", "a", "n">> THEN Parsed(TRUE, NaN)
    ELSE IF lower(body) \in {<<"i", "n", "f">>,
                             <<"i", "n", "f", "i", "n", "i", "t", "y">>}
    THEN Parsed(TRUE, Float("inf", neg, 0, <<>>))
    ELSE DecimalOf(neg,
                   IF point = 0 THEN body ELSE SubSeq(body, 1, point - 1),
                   IF point = 0 THEN <<>> ELSE SubSeq(body, point + 1, Len(body)))

\* float(text): white space around, an optional sign, then "nan", "inf",
\* "infinity" in any case, or digits with at most one point and at least one
\* digit
python_float(text) ==
    FloatOfBody(Negative(strip(text)), Unsigned(strip(text)),
                IndexIn(".", Unsigned(strip(text))))

\* str(x) of a float
FloatStr(x) ==
    IF x.kind = "nan" THEN <<"n", "a", "n">>
    ELSE IF x.kind = "inf" THEN (IF x.neg THEN <<"-", "i", "n", "f">> ELSE <<"i", "n", "f">>)
    ELSE (IF x.neg THEN <<"-">> ELSE <<>>) \o IntChars(x.whole) \o <<".">> \o
         (IF x.frac = <<>> THEN <<"0">> ELSE x.frac)

-----------------------------------------------------------------------------
(* parse_ora2pg_report: the regular expressions of the textual report      *)

\* the elements of a pattern: a literal (compared without case, as with
\* re.IGNORECASE) and \s+ or \s*
Lit(text) == [kind |-> "lit", text |-> text, min |-> 0]
Ws(min)   == [kind |-> "ws", text |-> <<>>, min |-> min]

\* the position after a match of the pattern that starts at position i of s,
\* 0 when there is none
RECURSIVE MatchFrom(_, _, _)
MatchFrom(pat, s, i) ==
    IF pat = <<>> THEN i
    ELSE LET e == Head(pat)
         IN  IF e.kind = "lit"
             THEN IF /\ i + Len(e.text) - 1 <= Len(s)
                     /\ lower(SubSeq(s, i, i + Len(e.text) - 1)) = lower(e.text)
                  THEN MatchFrom(Tail(pat), s, i + Len(e.text))
                  ELSE 0
             ELSE IF Run(s, i, "s") >= e.min
                  THEN MatchFrom(Tail(pat), s, i + Run(s, i, "s"))
                  ELSE 0

\* the position after the capturing group that starts at position j:
\* (\d+\.?\d*) or (\w+); 0 when the group does not match
CaptureEnd(s, j, capture) ==
    IF j = 0 THEN 0
    ELSE IF capture = "number"
    THEN LET d == Run(s, j, "d")
         IN  IF d = 0 THEN 0
             ELSE IF j + d <= Len(s) /\ s[j + d] = "."
             THEN j + d + 1 + Run(s, j + d + 1, "d")
             ELSE j + d
    ELSE LET w == Run(s, j, "w")
         IN  IF w = 0 THEN 0 ELSE j + w

NoMatch == [found |-> FALSE, start |-> 0, group |-> <<>>]

\* the positions of s at which a match of the pattern with its group starts
Hits(pat, capture, s) ==
    {i \in 1 .. Len(s) : CaptureEnd(s, MatchFrom(pat, s, i), capture) > 0}

Least(hits) == CHOOSE h \in hits : \A g \in hits : h <= g

MatchAt(s, capture, i, j) ==
    [found |-> TRUE, start |-> i,
     group |-> SubSeq(s, j, CaptureEnd(s, j, capture) - 1)]

LeftmostOf(pat, capture, s, hits) ==
    IF hits = {} THEN NoMatch
    ELSE MatchAt(s, capture, Least(hits), MatchFrom(pat, s, Least(hits)))

\* re.search(pattern, s, re.IGNORECASE): the leftmost match and its group(1)
re_search(pat, capture, s) == LeftmostOf(pat, capture, s, Hits(pat, capture, s))

\* lines 1822-1826
cost_patterns ==
    << << Lit(<<"T", "o", "t", "a", "l">>), Ws(1), Lit(<<"e", "s", "t", "i", "m", "a", "t", "e", "d">>), Ws(1), Lit(<<"c", "o", "s", "t", ":">>), Ws(0) >>,
       << Lit(<<"T", "o", "t", "a", "l">>), Ws(1), Lit(<<"c", "o", "s", "t", ":">>), Ws(0) >>,
       << Lit(<<"M", "i", "g", "r", "a", "t", "i", "o", "n">>), Ws(1), Lit(<<"c", "o", "s", "t", ":">>), Ws(0) >> >>

\* lines 1835-1838
level_patterns ==
    << << Lit(<<"M", "i", "g", "r", "a", "t", "i", "o", "n">>), Ws(1), Lit(<<"l", "e", "v", "e", "l", ":">>), Ws(0) >>,
       << Lit(<<"L", "e", "v", "e", "l", ":">>), Ws(0) >> >>

Earlier(m, rest) ==
    IF m.found /\ (~rest.found \/ m.start <= rest.start) THEN m ELSE rest

\* the match that starts leftmost in the text, whatever pattern it is of
RECURSIVE first_match_leftmost(_, _, _)
first_match_leftmost(patterns, capture, content) ==
    IF patterns = <<>> THEN NoMatch
    ELSE Earlier(re_search(Head(patterns), capture, content),
                 first_match_leftmost(Tail(patterns), capture, content))

RECURSIVE first_match(_, _, _)
RECURSIVE FirstFound(_, _, _, _)
FirstFound(m, patterns, capture, content) ==
    IF m.found THEN m ELSE first_match(Tail(patterns), capture, content)

\* lines 1828-1832 and 1840-1844: the loop over the patterns with its break
first_match(patterns, capture, content) ==
    IF patterns = <<>> THEN NoMatch
    ELSE FirstFound(re_search(Head(patterns), capture, content), patterns,
                    capture, content)

-----------------------------------------------------------------------------
(* parse_object_summary_from_html and parse_procedure_details              *)
(*                                                                         *)
(* The document is the sequence of its tables in document order, a table   *)
(* the sequence of its tr rows, a row the sequence of its th and td cells  *)
(* (tables are not nested).                                                *)

SummaryCols == 6

Cell(tag, text) == [tag |-> tag, text |-> text]

\* row.find_all(tag)
CellsOf(row, tag) == SelectSeq(row, LAMBDA c : c.tag = tag)

RECURSIVE Flatten(_)
Flatten(seqs) == IF seqs = <<>> THEN <<>> ELSE Head(seqs) \o Flatten(Tail(seqs))

\* line 1876
HeadersOf(table) ==
    LET ths == Flatten([r \in 1 .. Len(table) |-> CellsOf(table[r], "th")])
    IN  [k \in 1 .. Len(ths) |-> lower(strip(ths[k].text))]

IsSummaryTable_two_headers(table) ==
    LET headers == HeadersOf(table)
    IN  /\ Len(headers) >= 2
        /\ Contains(<<"o", "b", "j", "e", "c", "t">>, headers[1])
        /\ Contains(<<"n", "u", "m", "b", "e", "r">>, headers[2])

\* line 1878
IsSummaryTable(table) ==
    LET headers == HeadersOf(table)
    IN  /\ Len(headers) >= SummaryCols
        /\ Contains(<<"o", "b", "j", "e", "c", "t">>, headers[1])
        /\ Contains(<<"n", "u", "m", "b", "e", "r">>, headers[2])

OrDefault(parsed, default) == IF parsed.ok THEN parsed.value ELSE default

\* lines 1886-1890
safe_int(value) ==
    IF strip(value) = <<>> THEN 0 ELSE OrDefault(python_int(strip(value)), 0)

\* lines 1892-1896
safe_float(value) ==
    IF strip(value) = <<>> THEN FloatZero
    ELSE OrDefault(python_float(strip(value)), FloatZero)

NoProcedure == [end |-> 0, name |-> <<>>, cost |-> <<>>]

\* a match of ([a-zA-Z_][a-zA-Z0-9_.]*)\s*:\s*(\d+(?:\.\d+)?) that starts at
\* position i of s: the name ends before j, the colon is at k, the number
\* starts at m with d digits and, after a point, f more
ProcedureMatch(s, i, j, m, e) ==
    [end |-> e, name |-> SubSeq(s, i, j - 1), cost |-> SubSeq(s, m, e - 1)]

ProcedureNumber(s, i, j, m, d, f) ==
    IF d = 0 THEN NoProcedure
    ELSE ProcedureMatch(s, i, j, m, IF f > 0 THEN m + d + 1 + f ELSE m + d)

ProcedureDigits(s, i, j, m, d) ==
    ProcedureNumber(s, i, j, m, d,
                    IF m + d <= Len(s) /\ s[m + d] = "."
                    THEN Run(s, m + d + 1, "d") ELSE 0)

ProcedureColon(s, i, j, k) ==
    IF k > Len(s) \/ s[k] # ":" THEN NoProcedure
    ELSE ProcedureDigits(s, i, j, k + 1 + Run(s, k + 1, "s"),
                         Run(s, k + 1 + Run(s, k + 1, "s"), "d"))

ProcedureName(s, i, j) == ProcedureColon(s, i, j, j + Run(s, j, "s"))

ProcedureAt(s, i) ==
    IF i > Len(s) \/ ~(IsLetter(s[i]) \/ s[i] = "_") THEN NoProcedure
    ELSE ProcedureName(s, i, i + 1 + Run(s, i + 1, "ident"))

\* re.findall: the matches from left to right, without overlap
RECURSIVE FindAll(_, _)
RECURSIVE FindAllAfter(_, _, _)
FindAllAfter(s, i, match) ==
    IF match.end > 0 THEN << match >> \o FindAll(s, match.end)
    ELSE FindAll(s, i + 1)

FindAll(s, i) ==
    IF i > Len(s) THEN <<>> ELSE FindAllAfter(s, i, ProcedureAt(s, i))

\* lines 1953-1960
Procedure(proc_name, proc_cost) ==
    [name |-> proc_name, cost |-> proc_cost,
     full_name |-> proc_name \o <<":", " ">> \o FloatStr(proc_cost)]

Procedures(matches) ==
    [k \in 1 .. Len(matches) |->
        Procedure(strip(matches[k].name), python_float(matches[k].cost).value)]

\* the first match only
parse_procedure_details_first_match(details_text) ==
    LET matches == FindAll(details_text, 1)
    IN  Procedures(IF matches = <<>> THEN <<>> ELSE <<matches[1]>>)

\* lines 1942-1967
parse_procedure_details(details_text) == Procedures(FindAll(details_text, 1))

\* lines 1906-1916
MainEntry(object_name, cols, details) ==
    [object_name |-> object_name,
     object_number |-> safe_int(cols[2].text),
     invalid_count |-> safe_int(cols[3].text),
     estimated_cost |-> safe_float(cols[4].text),
     comments |-> strip(cols[5].text),
     details |-> details,
     detail_type |-> "MAIN",
     procedure_name |-> NoText,
     procedure_cost |-> NoFloat]

\* lines 1921-1932
ProcedureEntries(object_name, procs) ==
    [k \in 1 .. Len(procs) |->
        [object_name |-> object_name,
         object_number |-> 1,
         invalid_count |-> 0,
         estimated_cost |-> procs[k].cost,
         comments |-> <<"D", "e", "t", "a", "i", "l", " ", "o", "f", " ">> \o object_name,
         details |-> procs[k].full_name,
         detail_type |-> "PROCEDURE",
         procedure_name |-> procs[k].name,
         procedure_cost |-> procs[k].cost]]

\* the entries of the procedures instead of the MAIN entry when there are some
ColsEntries_procedures_instead(object_name, cols, details) ==
    IF details # <<>> /\ details # <<"-">> /\ parse_procedure_details(details) # <<>>
    THEN ProcedureEntries(object_name, parse_procedure_details(details))
    ELSE << MainEntry(object_name, cols, details) >>

\* lines 1898-1932
ColsEntries(object_name, cols, details) ==
    << MainEntry(object_name, cols, details) >> \o
    ProcedureEntries(object_name,
                     IF details # <<>> /\ details # <<"-">>
                     THEN parse_procedure_details(details) ELSE <<>>)

\* lines 1881-1936: the entries of one row of the summary table
RowEntries(row) ==
    IF Len(CellsOf(row, "td")) < SummaryCols THEN <<>>
    ELSE ColsEntries(strip(CellsOf(row, "td")[1].text), CellsOf(row, "td"),
                     strip(CellsOf(row, "td")[6].text))

\* line 1880: the rows after the first tr
TableEntries(table) ==
    Flatten([r \in 1 .. (Len(table) - 1) |-> RowEntries(table[r + 1])])

\* the entries of every table that matches
RECURSIVE parse_object_summary_from_html_no_break(_)
parse_object_summary_from_html_no_break(soup) ==
    IF soup = <<>> THEN <<>>
    ELSE (IF IsSummaryTable(Head(soup)) THEN TableEntries(Head(soup))
          ELSE <<>>) \o parse_object_summary_from_html_no_break(Tail(soup))

\* lines 1872-1940: the first table that matches, then break
RECURSIVE parse_object_summary_from_html(_)
parse_object_summary_from_html(soup) ==
    IF soup = <<>> THEN <<>>
    ELSE IF IsSummaryTable(Head(soup)) THEN TableEntries(Head(soup))
    ELSE parse_object_summary_from_html(Tail(soup))

\* a file of the output directory: the path handed to the parser (given is
\* false for None), whether it exists, whether open() and read() work, and
\* what it holds
File(given, exists, readable, content) ==
    [given |-> given, exists |-> exists, readable |-> readable,
     content |-> content]

NoFile == File(FALSE, FALSE, FALSE, <<>>)

CanRead(file) == file.given /\ file.exists /\ file.readable

\* lines 1828-1844: the fields the matches set
MetricsOf(cost, level, object_summary) ==
    [total_cost |-> IF cost.found THEN python_float(cost.group).value
                    ELSE FloatZero,
     migration_level |-> IF level.found THEN level.group
                         ELSE <<"U", "n", "k", "n", "o", "w", "n">>,
     ora2pg_object_summary |-> object_summary]

\* lines 1805-1865 (objects_count and details are not read by any caller)
parse_ora2pg_report(html, txt) ==
    MetricsOf(IF CanRead(txt)
              THEN first_match(cost_patterns, "number", txt.content)
              ELSE NoMatch,
              IF CanRead(txt)
              THEN first_match(level_patterns, "word", txt.content)
              ELSE NoMatch,
              IF CanRead(html) THEN parse_object_summary_from_html(html.content)
              ELSE <<>>)

-----------------------------------------------------------------------------
(* analyze_database: the result record of one profile                      *)

MaxRows == 2            \* most rows one extraction query returns in the model

LinesPerObject == 5001  \* source lines behind each row of the code_lines query

CodeLinesLimit == 10000

DepCategories  == << "dependencies", "db_links", "cross_schema_privs",
                     "external_references" >>

SizeCategories == << "database_size", "tablespace_size", "schema_size",
                     "table_size", "index_size", "segment_size", "code_lines",
                     "code_stats" >>

Range(s) == {s[i] : i \in 1 .. Len(s)}

\* number of columns of the SELECT list of each extraction query
QueryCols(cat, dba) ==
    CASE cat = "dependencies"        -> 7
      [] cat = "db_links"            -> 4
      [] cat = "cross_schema_privs"  -> 5
      [] cat = "external_references" -> 5
      [] cat = "database_size"       -> 6
      [] cat = "tablespace_size"     -> IF dba THEN 16 ELSE 6
      [] cat = "schema_size"         -> 5
      [] cat = "table_size"          -> 9
      [] cat = "index_size"          -> 9
      [] cat = "segment_size"        -> 12
      [] cat = "code_lines"          -> 7
      [] cat = "code_stats"          -> 8
      [] cat = "object_summary"      -> 3

\* A list of fetched rows is a sequence of blocks: `times` consecutive rows
\* of `ncols` columns with content k.  len() of the list is ListLen.
Block(ncols, k, times) == [ncols |-> ncols, k |-> k, times |-> times]

ListLen(rows) == SumSeq([i \in 1 .. Len(rows) |-> rows[i].times])

\* cursor.fetchall() of a query that finds n rows (rows 1 and 2 are equal:
\* nothing in the code relies on rows being distinct)
Fetched(cat, dba, n) ==
    IF cat = "code_lines"
    THEN IF n = 0 THEN <<>>
         ELSE << Block(QueryCols(cat, dba), 1, n * LinesPerObject) >>
    ELSE [i \in 1 .. n |-> Block(QueryCols(cat, dba), (i + 1) \div 2, 1)]

NoRows == [cat \in Range(SizeCategories) |-> <<>>]

NoMetrics ==
    [total_cost |-> FloatZero, migration_level |-> <<"U", "n", "k", "n", "o", "w", "n">>,
     analyzed_schemas |-> <<>>,
     target_schema |-> "auto", dba_mode |-> FALSE, reports_count |-> 0,
     ora2pg_object_summary |-> <<>>]

\* what happened while one profile was analyzed: fails (an exception reached
\* the except clause of analyze_database), dba (the classifier's answer),
\* n (rows found by each query), estimator_ok (ora2pg left an HTML report)
Outcomes ==
    [fails : BOOLEAN, dba : BOOLEAN, n : 0 .. MaxRows, estimator_ok : BOOLEAN]

\* lines 1732-1743 on the metrics of parse_ora2pg_report
Ora2pgMetrics(cfg, o) ==
    LET sc == run_ora2pg_scope(cfg, o.dba, NominalEnv)
    IN  [total_cost |-> FloatOf(o.n), migration_level |-> <<"B">>,
         analyzed_schemas |-> sc.analyzed_schemas,
         dba_mode |-> (o.dba /\ sc.target_schema = None),
         reports_count |-> 1,
         target_schema |-> IF sc.target_schema # None THEN sc.target_schema
                           ELSE "auto",
         ora2pg_object_summary |-> [i \in 1 .. o.n |-> Block(9, i, 1)]]

ErrorResult(cfg, msg) ==
    [schema |-> cfg.user, connection_name |-> cfg.connection_name,
     error |-> msg, is_dba |-> FALSE,
     dependencies |-> <<>>, db_links |-> <<>>, cross_schema_privs |-> <<>>,
     external_references |-> <<>>,
     has_size_data |-> FALSE, size_data |-> NoRows,
     has_ora2pg_metrics |-> FALSE, ora2pg_metrics |-> NoMetrics]

NoProfile == Profile("", "", NoKey, NoKey, NoKey, NoKey)

\* no item of all_results is being worked on
NoResult == ErrorResult(NoProfile, "")

DsnMissing_absent_only(cfg) == cfg.dsn = NoKey

\* line 2839
DsnMissing(cfg) == cfg.dsn = NoKey \/ ~Truthy(cfg.dsn)

\* lines 2834-3002
analyze_database(cfg, sizes_on, o) ==
    IF DsnMissing(cfg)
    THEN ErrorResult(cfg, "DSN mancante nella configurazione")
    ELSE IF o.fails
    THEN ErrorResult(cfg, "Errore durante l'analisi")
    ELSE [schema |-> cfg.user, connection_name |-> cfg.connection_name,
          error |-> "", is_dba |-> o.dba,
          dependencies |-> Fetched("dependencies", o.dba, o.n),
          db_links |-> Fetched("db_links", o.dba, o.n),
          cross_schema_privs |-> Fetched("cross_schema_privs", o.dba, o.n),
          external_references |-> Fetched("external_references", o.dba, o.n),
          has_size_data |-> sizes_on,
          size_data |-> IF sizes_on
                        THEN [cat \in Range(SizeCategories) |->
                                 Fetched(cat, o.dba, o.n)]
                        ELSE NoRows,
          has_ora2pg_metrics |-> o.estimator_ok,
          ora2pg_metrics |-> IF o.estimator_ok THEN Ora2pgMetrics(cfg, o)
                             ELSE NoMetrics]

-----------------------------------------------------------------------------
(* The PostgreSQL store                                                    *)

\* the table a category of the results is inserted into
DepTable(cat) ==
    IF cat = "cross_schema_privs" THEN "cross_schema_privileges" ELSE cat

dep_prefix_always_dba(dba) == "pdt_dep_dba_"

dep_prefix(dba)  == IF dba THEN "pdt_dep_dba_" ELSE "pdt_dep_nodba_"
size_prefix(dba) == IF dba THEN "pdt_sizes_dba_" ELSE "pdt_sizes_nodba_"

CostTables == << "ptd_ora2pg_object_summary", "ptd_ora2pg_estimates" >>

FamilyTables(dba) ==
    {dep_prefix(dba) \o DepTable(cat) : cat \in Range(DepCategories)} \cup
    {size_prefix(dba) \o cat : cat \in Range(SizeCategories)}

TableNames == Range(CostTables) \cup FamilyTables(TRUE) \cup FamilyTables(FALSE)

tables_to_clean_no_dependencies(dba) ==
    Range(CostTables) \cup (FamilyTables(dba) \ {dep_prefix(dba) \o "dependencies"})

tables_to_clean_both_tiers(dba) == TableNames

tables_to_clean_no_cost(dba) == FamilyTables(dba)

\* lines 2526-2562
tables_to_clean(dba) == Range(CostTables) \cup FamilyTables(dba)

\* no DELETE of cleanup_existing_data has run for the current item
NothingDeleted == [t \in TableNames |-> 0]

\* number of value columns (after connection_id) of each INSERT statement
InsertCols(table) ==
    CASE table \in {dep_prefix(d) \o "dependencies" : d \in BOOLEAN}            -> 7
      [] table \in {dep_prefix(d) \o "db_links" : d \in BOOLEAN}                -> 4
      [] table \in {dep_prefix(d) \o "cross_schema_privileges" : d \in BOOLEAN} -> 5
      [] table \in {dep_prefix(d) \o "external_references" : d \in BOOLEAN}     -> 5
      [] table \in {size_prefix(d) \o "database_size" : d \in BOOLEAN}          -> 6
      [] table = "pdt_sizes_dba_tablespace_size"                                -> 16
      [] table = "pdt_sizes_nodba_tablespace_size"                              -> 6
      [] table \in {size_prefix(d) \o "schema_size" : d \in BOOLEAN}            -> 5
      [] table \in {size_prefix(d) \o "table_size" : d \in BOOLEAN}             -> 9
      [] table \in {size_prefix(d) \o "index_size" : d \in BOOLEAN}             -> 9
      [] table \in {size_prefix(d) \o "segment_size" : d \in BOOLEAN}           -> 12
      [] table \in {size_prefix(d) \o "code_lines" : d \in BOOLEAN}             -> 7
      [] table \in {size_prefix(d) \o "code_stats" : d \in BOOLEAN}             -> 8
      [] table = "ptd_ora2pg_object_summary"                                    -> 9
      [] table = "ptd_ora2pg_estimates"                                         -> 8

\* a stored row: the connection it belongs to, the schema_name label (cost
\* tables only) and the inserted values
Stored(id, label, b) ==
    [connection_id |-> id, schema_name |-> label, ncols |-> b.ncols, k |-> b.k,
     times |-> b.times]

\* the rows of a table that belong to a connection
RowsOf(tbls, table, id) ==
    SelectSeq(tbls[table], LAMBDA r : r.connection_id = id)

\* cursor.rowcount of a statement that touches these rows
RowCount(rows) == SumSeq([i \in 1 .. Len(rows) |-> rows[i].times])

\* DELETE FROM table WHERE connection_id = id, rolled back
DeleteFrom_rolled_back(rows, id) == rows

\* DELETE FROM table WHERE connection_id = id
DeleteFrom(rows, id) == SelectSeq(rows, LAMBDA r : r.connection_id # id)

IdentityRow(id, cfg, dba) ==
    [id |-> id, connection_name |-> cfg.connection_name, dsn |-> Get(cfg, "dsn", "''"),
     username |-> cfg.user, schema |-> Get(cfg, "schema", None),
     is_dba |-> dba,
     analyze_all_schemas |-> Truthy(Get(cfg, "analyze_all_schemas", "true"))]

upsert_always_insert(rows, next_id, cfg, dba) ==
    [rows |-> rows \cup {IdentityRow(next_id, cfg, dba)},
     id |-> next_id, serial |-> next_id + 1]

\* lines 2462-2513: SELECT by name, then UPDATE in place or INSERT RETURNING id
upsert(rows, next_id, cfg, dba) ==
    LET found == {r \in rows : r.connection_name = cfg.connection_name}
    IN  IF found # {}
        THEN LET old == CHOOSE r \in found : TRUE
             IN  [rows |-> (rows \ {old}) \cup {IdentityRow(old.id, cfg, dba)},
                  id |-> old.id, serial |-> next_id]
        ELSE [rows |-> rows \cup {IdentityRow(next_id, cfg, dba)},
              id |-> next_id, serial |-> next_id + 1]

\* line 2629
TargetSchemaLabel(cfg, res) == Get(cfg, "schema", res.schema)

CodeLinesInserted_always(code_lines) == TRUE

\* line 2794
CodeLinesInserted(code_lines) == ListLen(code_lines) <= CodeLinesLimit

\* lines 2698-2713: the row of ptd_ora2pg_estimates
EstimateRow(id, label, m) ==
    [connection_id |-> id, schema_name |-> label, total_cost |-> m.total_cost,
     migration_level |-> m.migration_level,
     analyzed_schemas |-> m.analyzed_schemas, target_schema |-> m.target_schema,
     dba_mode |-> m.dba_mode, reports_count |-> m.reports_count, times |-> 1]

StoreAll(id, label, rows) == [i \in 1 .. Len(rows) |-> Stored(id, label, rows[i])]

\* lines 2631-2812: the rows the INSERT statements of one result add to a table
Inserted(table, res, cfg, id, sizes_on) ==
    LET dba   == res.is_dba
        label == TargetSchemaLabel(cfg, res)
        m     == res.ora2pg_metrics
    IN  IF \E cat \in Range(DepCategories) : table = dep_prefix(dba) \o DepTable(cat)
        THEN LET cat == CHOOSE c \in Range(DepCategories) :
                            table = dep_prefix(dba) \o DepTable(c)
             IN  StoreAll(id, None, res[cat])
        ELSE IF table = "ptd_ora2pg_object_summary" /\ res.has_ora2pg_metrics
        THEN StoreAll(id, label, m.ora2pg_object_summary)
        ELSE IF table = "ptd_ora2pg_estimates" /\ res.has_ora2pg_metrics
        THEN << EstimateRow(id, label, m) >>
        ELSE IF /\ sizes_on /\ res.has_size_data
                /\ \E cat \in Range(SizeCategories) : table = size_prefix(dba) \o cat
        THEN LET cat == CHOOSE c \in Range(SizeCategories) :
                            table = size_prefix(dba) \o c
             IN  IF cat = "code_lines" /\ ~CodeLinesInserted(res.size_data[cat])
                 THEN <<>>
                 ELSE StoreAll(id, None, res.size_data[cat])
        ELSE <<>>

\* every tuple handed to an INSERT has as many values as the statement has
\* placeholders (otherwise cursor.execute raises)
ShapesFit(res, cfg, id, sizes_on) ==
    \A t \in TableNames \ {"ptd_ora2pg_estimates"} :
        \A r \in Range(Inserted(t, res, cfg, id, sizes_on)) :
            r.ncols = InsertCols(t)

-----------------------------------------------------------------------------
(* run_analysis and save_to_postgresql                                     *)
(*                                                                         *)
(* all_results is complete before save_to_postgresql starts and nothing    *)
(* in the loop changes it or reads the store to build it, so the model     *)
(* reveals each item (the profile and its result) when the loop reaches    *)
(* it: `seen` holds the connection names the loop has already taken.       *)
(* Connection names are unique in a configuration (section 3 of the        *)
(* specification), so the lookup of line 2610 finds the item's profile.    *)
(* When the analysis is modelled step by step (SpecRun), all_results is    *)
(* the dictionary of line 3021 and the lookup is ConfigFor.                *)

Names == {"A", "B"}

\* the profiles a name is configured with from one execution to the next
ConfigsOf(name) ==
    IF name = "A"
    THEN {Profile("A", "APP", "h:1521/s", NoKey, "'auto'", NoKey),
          Profile("A", "APP", "h:1521/s", "HR", "'auto'", "false"),
          Profile("A", "APP", NoKey, NoKey, "'auto'", NoKey)}
    ELSE {Profile(name, "SCOTT", "h:1521/s", NoKey, "'auto'", NoKey)}

\* what the analysis of a name's profile can run into
OutcomesOf(name) ==
    IF name = "A" THEN Outcomes
    ELSE {o \in Outcomes : ~o.fails /\ ~o.dba /\ o.n = 1 /\ o.estimator_ok}

\* a line of the console: its text and the connection it names
Said(text, connection_name) ==
    [text |-> text, connection_name |-> connection_name]

\* lines 2828-2832: the except clause of save_to_postgresql
SaveError == Said("Errore nel salvataggio su PostgreSQL", "")

AfterSaveError_next_item == "loop"

\* lines 2828-2832: the except clause is outside the loop over all_results,
\* save_to_postgresql ends there
AfterSaveError == "save_failed"

\* lines 3021-3046: every profile is analyzed, then the summary is written
run_analysis ==
    /\ pc = "idle"
    /\ pc' = "analyzed"
    /\ UNCHANGED <<callVars, clsVars, scopeVars, analyze_sizes, results, seen,
                   connection_id, deleted_count, console, storeVars,
                   extVars,
                   parseVars,
                   anaVars>>

\* lines 2590-2594: create_database_schema (CREATE ... IF NOT EXISTS) may raise
save_to_postgresql_begin ==
    /\ pc = "analyzed"
    /\ \E ok \in BOOLEAN :
         IF ok THEN pc' = "loop" /\ UNCHANGED console
         ELSE pc' = AfterSaveError /\ console' = Append(console, SaveError)
    /\ UNCHANGED <<callVars, clsVars, scopeVars, analyze_sizes, results, seen,
                   connection_id, deleted_count, storeVars,
                   extVars,
                   parseVars,
                   anaVars>>

Skipped_only_without_name(r) == ~Truthy(r.connection_name)

\* lines 2598-2614: the results that are skipped (the profile of a result
\* is always found by line 2610)
Skipped(r) == r.error # "" \/ ~Truthy(r.connection_name)

\* the items of all_results the loop has not taken yet
Remaining ==
    SelectSeq(all_results,
              LAMBDA item : item.results.connection_name \notin seen)

\* lines 2610-2611: the first profile of the configuration with that name
ConfigFor(connection_name) ==
    oracle_connections[
        CHOOSE k \in 1 .. Len(oracle_connections) :
            /\ oracle_connections[k].connection_name = connection_name
            /\ \A j \in 1 .. (k - 1) :
                  oracle_connections[j].connection_name # connection_name]

Found(item) ==
    [cfg |-> ConfigFor(item.results.connection_name), results |-> item.results]

\* line 2597: the items the loop can take next: the first remaining item of
\* all_results, or, when the analysis is not modelled step by step, any item
\* an analysis can have produced
NextItems ==
    IF apc = "idle"
    THEN UNION {{[cfg |-> cfg, results |-> analyze_database(cfg, analyze_sizes, o)] :
                    o \in OutcomesOf(cfg.connection_name)} :
                cfg \in UNION {ConfigsOf(n) : n \in Names \ seen}}
    ELSE IF Remaining = <<>> THEN {} ELSE {Found(Head(Remaining))}

Takes(item) ==
    /\ db_config' = item.cfg
    /\ results' = item.results
    /\ seen' = seen \cup {item.cfg.connection_name}

\* lines 2597-2614: the next item is one the loop skips
skip_result ==
    /\ pc = "loop"
    /\ \E item \in NextItems :
         /\ Skipped(item.results)
         /\ Takes(item)
         /\ console' = Append(console, Said("Saltato", item.results.connection_name))
    /\ UNCHANGED <<is_dba, clsVars, scopeVars, analyze_sizes, pc, connection_id,
                   deleted_count, storeVars,
                   extVars,
                   parseVars,
                   anaVars>>

\* lines 2597-2619 and 2455-2517: the next item is not skipped; the lookup
\* or creation of its identity row is one transaction, committed at line 2510
get_or_create_connection_id ==
    /\ pc = "loop"
    /\ \E item \in NextItems :
         /\ ~Skipped(item.results)
         /\ Takes(item)
         /\ \E ok \in BOOLEAN :
              IF ok
              THEN LET u == upsert(pdt_connections, serial, item.cfg,
                                   item.results.is_dba)
                   IN  /\ pdt_connections' = u.rows
                       /\ serial' = u.serial
                       /\ connection_id' = u.id
                       /\ pc' = "cleanup"
                       /\ UNCHANGED console
              ELSE /\ pc' = AfterSaveError
                   /\ console' = Append(console, SaveError)
                   /\ UNCHANGED <<pdt_connections, serial, connection_id>>
    /\ deleted_count' = NothingDeleted
    /\ UNCHANGED <<is_dba, clsVars, scopeVars, analyze_sizes, tables,
                   extVars,
                   parseVars,
                   anaVars>>

\* lines 2519-2586: one transaction, committed at line 2575
cleanup_existing_data ==
    /\ pc = "cleanup"
    /\ \E ok \in BOOLEAN :
         IF ok
         THEN /\ tables' = [t \in TableNames |->
                              IF t \in tables_to_clean(results.is_dba)
                              THEN DeleteFrom(tables[t], connection_id)
                              ELSE tables[t]]
              /\ deleted_count' =
                     [t \in TableNames |->
                        IF t \in tables_to_clean(results.is_dba)
                        THEN RowCount(RowsOf(tables, t, connection_id))
                        ELSE 0]
              /\ pc' = "insert"
              /\ UNCHANGED console
         ELSE /\ pc' = AfterSaveError
              /\ console' = Append(console, SaveError)
              /\ UNCHANGED <<tables, deleted_count>>
    /\ UNCHANGED <<callVars, clsVars, scopeVars, analyze_sizes, results, seen,
                   connection_id, pdt_connections, serial,
                   extVars,
                   parseVars,
                   anaVars>>

\* lines 2624-2818: one transaction, committed at line 2816
insert_results ==
    /\ pc = "insert"
    /\ \E ok \in BOOLEAN :
         IF ok /\ ShapesFit(results, db_config, connection_id, analyze_sizes)
         THEN /\ tables' = [t \in TableNames |->
                              tables[t] \o Inserted(t, results, db_config,
                                                    connection_id, analyze_sizes)]
              /\ pc' = "loop"
              /\ console' = Append(console, Said("Dati salvati per",
                                                 results.connection_name))
         ELSE /\ pc' = AfterSaveError
              /\ console' = Append(console, SaveError)
              /\ UNCHANGED tables
    /\ UNCHANGED <<callVars, clsVars, scopeVars, analyze_sizes, results, seen,
                   connection_id, deleted_count, pdt_connections, serial,
                   extVars,
                   parseVars,
                   anaVars>>

\* lines 2822-2826: all_results has no further item
save_to_postgresql_end ==
    /\ pc = "loop"
    /\ IF apc = "idle" THEN seen # {} ELSE NextItems = {}
    /\ pc' = "saved"
    /\ console' = Append(console, Said("Dati salvati in PostgreSQL", ""))
    /\ UNCHANGED <<callVars, clsVars, scopeVars, analyze_sizes, results, seen,
                   connection_id, deleted_count, storeVars,
                   extVars,
                   parseVars,
                   anaVars>>

SaveReturned_only_committed == pc = "saved"

\* lines 2822-2832: save_to_postgresql returns to run_analysis after its
\* loop and after its except clause alike
SaveReturned == pc \in {"saved", "save_failed"}

\* lines 3048-3076: save_to_postgresql has returned, with or without a
\* failure, and run_analysis prints the final report
final_report ==
    /\ SaveReturned
    /\ pc' = "reported"
    /\ console' = Append(console, Said("ANALISI COMPLETATA", ""))
    /\ UNCHANGED <<callVars, clsVars, scopeVars, analyze_sizes, results, seen,
                   connection_id, deleted_count, storeVars,
                   extVars,
                   parseVars,
                   anaVars>>

\* the end of main: the process ends, the store stays
exit_process ==
    /\ pc = "reported"
    /\ pc' = "idle"
    /\ console' = <<>>
    /\ db_config' = NoProfile
    /\ results' = NoResult
    /\ seen' = {}
    /\ connection_id' = 0
    /\ deleted_count' = NothingDeleted
    /\ UNCHANGED <<is_dba, clsVars, scopeVars, analyze_sizes, storeVars,
                   extVars,
                   parseVars,
                   anaVars>>

-----------------------------------------------------------------------------
(* _execute_dependency_queries and _execute_size_queries                   *)

MaxFetched == 1     \* most rows one query of the extraction loop returns

\* the keys of the `queries` dictionary, in insertion order
DependencyQueries == << "dependencies", "db_links", "object_summary",
                        "cross_schema_privs", "external_references" >>

QueriesOf(kind) == IF kind = "dependencies" THEN DependencyQueries ELSE SizeCategories

\* what the instance does with one query: it raises, or it returns n rows
QueryOutcomes == {Raise} \cup (0 .. MaxFetched)

\* lines 510-517 and 957-967: every category starts empty
EmptyResults(kind) == [cat \in Range(QueriesOf(kind)) |-> <<>>]

ExtractionIdle ==
    /\ xpc = "idle" /\ extraction = "dependencies" /\ queries = <<>>
    /\ query_results = EmptyResults("dependencies") /\ answered = <<>>

QueryResult_reset_on_error(prev, kind, cat, dba, outcome) ==
    IF outcome = Raise THEN EmptyResults(kind)
    ELSE [prev EXCEPT ![cat] = Fetched(cat, dba, outcome)]

\* lines 528-541 and 979-998: one iteration of the loop changes the entry of
\* its own query only
QueryResult(prev, kind, cat, dba, outcome) ==
    [prev EXCEPT ![cat] = IF outcome = Raise THEN <<>>
                          ELSE Fetched(cat, dba, outcome)]

\* lines 287-295, 407-413, 552-559, 791-797: the cursor and SELECT USER FROM
\* DUAL, outside any try; then lines 510-526 / 957-977
extraction_enter ==
    /\ xpc = "call"
    /\ \E ok \in BOOLEAN :
         IF ok
         THEN /\ xpc' = "loop"
              /\ queries' = QueriesOf(extraction)
              /\ query_results' = EmptyResults(extraction)
         ELSE /\ xpc' = "raised"
              /\ UNCHANGED <<queries, query_results>>
    /\ UNCHANGED <<extraction, answered, callVars, clsVars, scopeVars, runVars,
                   storeVars,
                   parseVars,
                   anaVars>>

\* lines 528-541 and 979-998: one iteration of the loop over queries.items()
execute_query ==
    /\ xpc = "loop"
    /\ queries # <<>>
    /\ \E outcome \in QueryOutcomes :
         /\ query_results' = QueryResult(query_results, extraction, Head(queries),
                                         is_dba, outcome)
         /\ answered' = Append(answered, [query |-> Head(queries),
                                          outcome |-> outcome])
    /\ queries' = Tail(queries)
    /\ UNCHANGED <<xpc, extraction, callVars, clsVars, scopeVars, runVars,
                   storeVars,
                   parseVars,
                   anaVars>>

\* lines 543-544 and 1000-1001
extraction_return ==
    /\ xpc = "loop"
    /\ queries = <<>>
    /\ xpc' = "returned"
    /\ UNCHANGED <<extraction, queries, query_results, answered, callVars,
                   clsVars, scopeVars, runVars, storeVars,
                   parseVars,
                   anaVars>>

-----------------------------------------------------------------------------
(* _execute_ora2pg_command and parse_ora2pg_report, step by step           *)

\* the configured values of ora2pg_output_mode: the two the code knows and
\* one it does not
Modes == {"html_only", "html_and_txt", "txt_only"}

\* what subprocess.run does: it raises, or ora2pg exits with 0 or 1
ReturnCodes == {Raise, 0, 1}

NotCalled == [called |-> FALSE, html_file |-> NoFile, txt_file |-> NoFile]

ParserArguments_txt_always(mode, rc, on_disk) ==
    IF mode \in {"html_only", "html_and_txt"} /\ rc.html = 0 /\ rc.txt # Raise
    THEN [called |-> TRUE, html_file |-> on_disk.html, txt_file |-> on_disk.txt]
    ELSE NotCalled

\* lines 1750-1803: whether parse_ora2pg_report is called, and with which
\* arguments
ParserArguments(mode, rc, on_disk) ==
    IF mode = "html_only"
    THEN IF rc.html = 0
         THEN [called |-> TRUE, html_file |-> on_disk.html, txt_file |-> NoFile]
         ELSE NotCalled
    ELSE IF mode = "html_and_txt"
    THEN IF rc.html = Raise \/ rc.txt = Raise THEN NotCalled
         ELSE IF rc.html = 0
         THEN [called |-> TRUE, html_file |-> on_disk.html,
               txt_file |-> IF rc.txt = 0 THEN on_disk.txt ELSE NoFile]
         ELSE NotCalled
    ELSE NotCalled

\* lines 1807-1813
DefaultMetrics == parse_ora2pg_report(NoFile, NoFile)

ParserIdle ==
    /\ ppc = "idle" /\ ora2pg_output_mode = "html_and_txt"
    /\ reports = [html |-> NoFile, txt |-> NoFile]
    /\ returncode = [html |-> 0, txt |-> 0]
    /\ html_file = NoFile /\ txt_file = NoFile /\ metrics = DefaultMetrics

\* lines 1750-1803
execute_ora2pg_command ==
    /\ ppc = "run"
    /\ \E rc \in [html : ReturnCodes, txt : ReturnCodes] :
         LET a == ParserArguments(ora2pg_output_mode, rc, reports)
         IN  /\ ora2pg_output_mode = "html_and_txt" \/ rc.txt = 0
             /\ rc.html # Raise \/ rc.txt = 0
             /\ returncode' = rc
             /\ html_file' = a.html_file
             /\ txt_file' = a.txt_file
             /\ ppc' = IF a.called THEN "parse_txt" ELSE "none"
    /\ UNCHANGED <<ora2pg_output_mode, reports, metrics, callVars, clsVars,
                   scopeVars, runVars, storeVars, extVars, anaVars>>

\* lines 1807-1854: the defaults, then the textual report
parse_ora2pg_report_txt ==
    /\ ppc = "parse_txt"
    /\ metrics' = parse_ora2pg_report(NoFile, txt_file)
    /\ ppc' = "parse_html"
    /\ UNCHANGED <<ora2pg_output_mode, reports, returncode, html_file, txt_file,
                   callVars, clsVars, scopeVars, runVars, storeVars, extVars,
                   anaVars>>

\* lines 1856-1865: the HTML report
parse_ora2pg_report_html ==
    /\ ppc = "parse_html"
    /\ metrics' = [metrics EXCEPT !.ora2pg_object_summary =
                      parse_ora2pg_report(html_file, NoFile).ora2pg_object_summary]
    /\ ppc' = "returned"
    /\ UNCHANGED <<ora2pg_output_mode, reports, returncode, html_file, txt_file,
                   callVars, clsVars, scopeVars, runVars, storeVars, extVars,
                   anaVars>>

\* ---- the report files of the model

MaxLines == 2       \* most lines of a textual report

MaxTables == 3      \* most tables of an HTML report

MaxBodyRows == 2    \* most rows after the header row of a summary table

TxtLines ==
    { <<"T", "o", "t", "a", "l", " ", "e", "s", "t", "i", "m", "a", "t", "e", "d", " ", "c", "o", "s", "t", ":", " ", "9", "\n">>,
      <<"T", "o", "t", "a", "l", " ", "c", "o", "s", "t", ":", " ", "1", "2", ".", "5", "\n">>,
      <<"M", "i", "g", "r", "a", "t", "i", "o", "n", " ", "c", "o", "s", "t", ":", " ", "3", "\n">>,
      <<"M", "i", "g", "r", "a", "t", "i", "o", "n", " ", "l", "e", "v", "e", "l", ":", " ", "B", "-", "5", "\n">>,
      <<"L", "e", "v", "e", "l", ":", " ", "A", "\n">>,
      <<"T", "o", "t", "a", "l", " ", "e", "s", "t", "i", "m", "a", "t", "e", "d", " ", "c", "o", "s", "t", ":", " ", "n", "/", "a", "\n">>,
      <<"T", "A", "B", "L", "E", " ", "[", "4", "]", "\n">> }

\* the texts of at most n lines
RECURSIVE Texts(_)
Texts(n) ==
    IF n = 0 THEN {<<>>}
    ELSE Texts(n - 1) \cup {l \o t : l \in TxtLines, t \in Texts(n - 1)}

Missing    == File(TRUE, FALSE, FALSE, <<>>)
Unreadable == File(TRUE, TRUE, FALSE, <<>>)
Holding(content) == File(TRUE, TRUE, TRUE, content)

TxtFiles == {Missing, Unreadable} \cup {Holding(c) : c \in Texts(MaxLines)}

SampleTxt == Holding(<<"T", "o", "t", "a", "l", " ", "c", "o", "s", "t", ":", " ", "1", "2", ".", "5", "\n">> \o <<"M", "i", "g", "r", "a", "t", "i", "o", "n", " ", "l", "e", "v", "e", "l", ":", " ", "B", "-", "5", "\n">>)

HeaderRow(texts) == [k \in 1 .. Len(texts) |-> Cell("th", texts[k])]
DataRow(texts)   == [k \in 1 .. Len(texts) |-> Cell("td", texts[k])]

SummaryHeaders ==
    << <<"O", "b", "j", "e", "c", "t">>, <<"N", "u", "m", "b", "e", "r">>, <<"I", "n", "v", "a", "l", "i", "d">>, <<"E", "s", "t", "i", "m", "a", "t", "e", "d", " ", "c", "o", "s", "t">>, <<"C", "o", "m", "m", "e", "n", "t", "s">>,
       <<"D", "e", "t", "a", "i", "l", "s">> >>

UpperHeaders ==
    << <<" ", "O", "B", "J", "E", "C", "T", " ", "T", "Y", "P", "E", " ">>, <<"N", "u", "m", "b", "e", "r", " ", "o", "f", " ", "o", "b", "j", "e", "c", "t", "s">>, <<"I", "N", "V", "A", "L", "I", "D">>, <<"C", "O", "S", "T">>,
       <<"C", "O", "M", "M", "E", "N", "T", "S">>, <<"D", "E", "T", "A", "I", "L", "S">> >>

OtherHeaders ==
    << <<"N", "a", "m", "e">>, <<"V", "a", "l", "u", "e">>, <<"U", "n", "i", "t">>, <<"M", "i", "n">>, <<"M", "a", "x">>, <<"N", "o", "t", "e">> >>

ShortHeaders == << <<"O", "b", "j", "e", "c", "t">>, <<"N", "u", "m", "b", "e", "r">> >>

\* what a numeric cell holds
CellTexts == { <<>>, <<"7">>, <<" ", "1", "2", " ">>, <<"2", ".", "5">>, <<"x">>, <<"n", "a", "n">> }

FullRow(name, number, details) ==
    DataRow(<< name, number, number, number, <<"n", "o", "n", "e">>, details >>)

BodyRows ==
    {FullRow(<<"T", "A", "B", "L", "E">>, c, <<"-">>) : c \in CellTexts} \cup
    { FullRow(<<"P", "A", "C", "K", "A", "G", "E", " ", "B", "O", "D", "Y">>, <<"2">>, <<"p", "k", "g", ".", "p", "r", "o", "c", "_", "a", ":", " ", "3", ",", " ", "p", "k", "g", ".", "p", "r", "o", "c", "_", "b", ":", " ", "4", ".", "5">>),
      FullRow(<<"F", "U", "N", "C", "T", "I", "O", "N">>, <<"1">>, <<>>),
      FullRow(<<"T", "Y", "P", "E">>, <<"1">>, <<"n", "/", "a">>),
      FullRow(<<"T", "R", "I", "G", "G", "E", "R">>, <<"1">>, <<"9", "a", ":", "1", ",", " ", "b", " ", ":", "2", ".", "5", ".", "7", ",", " ", "c", ":", " ", "x">>),
      DataRow(<< <<"V", "I", "E", "W">>, <<"1">>, <<"0">>, <<"1">>, <<"n", "o", "n", "e">> >>),
      DataRow(<< <<"I", "N", "D", "E", "X">>, <<"4">>, <<"0">>, <<"1">>, <<"n", "o", "n", "e">>, <<"-">>, <<"m", "o", "r", "e">> >>) }

\* the sequences of at least one and at most n elements of S
RECURSIVE SeqsUpTo(_, _)
SeqsUpTo(S, n) ==
    IF n = 0 THEN {}
    ELSE {<<x>> : x \in S} \cup
         {<<x>> \o t : x \in S, t \in SeqsUpTo(S, n - 1)}

OtherTable   == << HeaderRow(OtherHeaders), FullRow(<<"o", "t", "h", "e", "r">>, <<"1">>, <<"-">>) >>
ShortTable   == << HeaderRow(ShortHeaders), FullRow(<<"s", "h", "o", "r", "t">>, <<"1">>, <<"-">>) >>
SummaryTable == << HeaderRow(SummaryHeaders), FullRow(<<"T", "A", "B", "L", "E">>, <<"3">>, <<"-">>),
                   FullRow(<<"P", "R", "O", "C", "E", "D", "U", "R", "E">>, <<"1">>, <<"p", ":", " ", "2">>) >>
UpperTable   == << HeaderRow(UpperHeaders), FullRow(<<"V", "I", "E", "W">>, <<"5">>, <<"-">>) >>

FixedTables == {OtherTable, ShortTable, SummaryTable, UpperTable}

HtmlFiles ==
    {Missing, Unreadable} \cup
    {Holding(doc) : doc \in SeqsUpTo(FixedTables, MaxTables)} \cup
    {Holding(<< <<HeaderRow(SummaryHeaders)>> \o rows >>) :
        rows \in SeqsUpTo(BodyRows, MaxBodyRows)}

SampleHtml == Holding(<< OtherTable, SummaryTable >>)

-----------------------------------------------------------------------------
(* run_analysis and analyze_database, one step of one profile at a time    *)

\* an entry of the trace: the call `step` was made for the profile at
\* position `profile` of oracle_connections; family tells which of the two
\* query families an extraction ran, what check_dba_privileges answered,
\* whether get_db_connection and close()
\* returned or raised, and in which state the scope resolution left its
\* temporary connection
Step(profile, step, family) ==
    [profile |-> profile, step |-> step, family |-> family]

Called(step) == << Step(conn_no, step, "") >>

QueryFamily_always_dba(dba) == "dba"

\* lines 545-550 and 1003-1008: the query family the dispatchers select
QueryFamily(dba) == IF dba THEN "dba" ELSE "nodba"

\* the answers of the four probes when `passing` of them pass
ProbeVector(passing) ==
    [k \in 1 .. total_tests |->
        IF k <= passing THEN 1 ELSE IF k % 2 = 0 THEN Raise ELSE 0]

Score(outs) ==
    Cardinality({k \in 1 .. Len(outs) : outs[k] # Raise /\ TestPassed(outs[k])})

check_dba_privileges_always_probes(cfg, user_ok, outs) ==
    IF ~user_ok THEN [raised |-> TRUE, is_dba |-> FALSE, probes |-> 0]
    ELSE [raised |-> FALSE, is_dba |-> DbaDecision(Score(outs)),
          probes |-> total_tests]

\* lines 226-285 as one call: it raises (SELECT USER FROM DUAL), or it
\* returns is_dba after `probes` probe queries
check_dba_privileges(cfg, user_ok, outs) ==
    IF ~user_ok THEN [raised |-> TRUE, is_dba |-> FALSE, probes |-> 0]
    ELSE IF ManualOverride(cfg)
    THEN [raised |-> FALSE, is_dba |-> (cfg.is_dba_cfg = "true"), probes |-> 0]
    ELSE [raised |-> FALSE, is_dba |-> DbaDecision(Score(outs)),
          probes |-> total_tests]

\* the tuples of the INSERT at lines 2669-2690: nine values per entry
SummaryRows(entries) == [k \in 1 .. Len(entries) |-> Block(9, k, 1)]

\* lines 1734-1737: the fields run_ora2pg_analysis adds
WithScope(m, sc, dba) ==
    [total_cost |-> m.total_cost, migration_level |-> m.migration_level,
     analyzed_schemas |-> sc.analyzed_schemas,
     dba_mode |-> (dba /\ sc.target_schema = None),
     reports_count |-> 1,
     target_schema |-> IF sc.target_schema # None THEN sc.target_schema
                       ELSE "auto",
     ora2pg_object_summary |-> SummaryRows(m.ora2pg_object_summary)]

Ora2pgResult(returned, m) == [returned |-> returned, metrics |-> m]

run_ora2pg_analysis_defaults_on_failure(a, sc, dba) ==
    IF ~a.called THEN Ora2pgResult(TRUE, WithScope(DefaultMetrics, sc, dba))
    ELSE Ora2pgResult(TRUE, WithScope(parse_ora2pg_report(a.html_file, a.txt_file),
                                      sc, dba))

\* lines 1729-1746: None when the command gave no report, otherwise the
\* metrics of parse_ora2pg_report with the scope added
run_ora2pg_analysis(a, sc, dba) ==
    IF ~a.called THEN Ora2pgResult(FALSE, NoMetrics)
    ELSE Ora2pgResult(TRUE, WithScope(parse_ora2pg_report(a.html_file, a.txt_file),
                                      sc, dba))

AnalysisIdle ==
    /\ oracle_connections = <<>> /\ conn_no = 0 /\ apc = "idle"
    /\ db_results = NoResult /\ all_results = <<>> /\ trace = <<>>
    /\ summary = <<>>

Failed_without_error(r) == r

\* lines 2995-3002: the except clause keeps what results already holds
Failed(r) == [r EXCEPT !.error = "Errore durante l'analisi"]

\* the locals of analyze_database and run_ora2pg_analysis are gone
LocalsDropped ==
    /\ db_config' = NoProfile /\ is_dba' = FALSE /\ db_results' = NoResult
    /\ target_schema' = None /\ analyzed_schemas' = <<>>
    /\ temp_connection' = "none" /\ enum_queries' = 0 /\ conf_schema' = <<>>
    /\ UNCHANGED <<spc, scope_env>>

\* lines 3026-3030 and 2836-2866: the next profile; without a DSN the call
\* returns at once
analyze_database_enter ==
    /\ apc = "loop"
    /\ conn_no < Len(oracle_connections)
    /\ conn_no' = conn_no + 1
    /\ LET cfg == oracle_connections[conn_no + 1]
       IN  /\ db_config' = cfg
           /\ IF DsnMissing(cfg)
              THEN /\ db_results' =
                          ErrorResult(cfg, "DSN mancante nella configurazione")
                   /\ apc' = "return"
              ELSE /\ db_results' = ErrorResult(cfg, "")
                   /\ apc' = "connect"
    /\ UNCHANGED <<is_dba, oracle_connections, all_results, trace, summary,
                   clsVars, scopeVars, runVars, storeVars, extVars, parseVars>>

\* lines 2870-2874
analyze_database_connect ==
    /\ apc = "connect"
    /\ \E ok \in BOOLEAN :
         /\ trace' = Append(trace, Step(conn_no, "connect",
                                        IF ok THEN "opened" ELSE "raised"))
         /\ IF ok THEN apc' = "classify" /\ UNCHANGED db_results
            ELSE apc' = "return" /\ db_results' = Failed(db_results)
    /\ UNCHANGED <<callVars, oracle_connections, conn_no, all_results, summary,
                   clsVars, scopeVars, runVars, storeVars, extVars, parseVars>>

\* lines 2879-2880
analyze_database_classify ==
    /\ apc = "classify"
    /\ \E user_ok \in BOOLEAN, passing \in 0 .. total_tests :
         LET r == check_dba_privileges(db_config, user_ok, ProbeVector(passing))
         IN  /\ r.probes = 0 => passing = 0
             /\ trace' = trace \o
                         << Step(conn_no, "classify",
                                 IF r.raised THEN "raised"
                                 ELSE IF r.is_dba THEN "dba" ELSE "nodba") >> \o
                         [k \in 1 .. r.probes |-> Step(conn_no, "probe", "")]
             /\ IF r.raised
                THEN /\ apc' = "return"
                     /\ db_results' = Failed(db_results)
                     /\ UNCHANGED is_dba
                ELSE /\ apc' = "dependencies"
                     /\ is_dba' = r.is_dba
                     /\ db_results' = [db_results EXCEPT !.is_dba = r.is_dba]
    /\ UNCHANGED <<db_config, oracle_connections, conn_no, all_results, summary,
                   clsVars, scopeVars, runVars, storeVars, extVars, parseVars>>

\* lines 2884-2885: get_oracle_dependencies; every query finds n rows
analyze_database_dependencies ==
    /\ apc = "dependencies"
    /\ trace' = trace \o << Step(conn_no, "dependencies", QueryFamily(is_dba)) >>
    /\ \E user_ok \in BOOLEAN, n \in 0 .. MaxFetched :
         IF user_ok
         THEN /\ db_results' =
                    [cat \in DOMAIN db_results |->
                        IF cat \in Range(DepCategories)
                        THEN Fetched(cat, QueryFamily(is_dba) = "dba", n)
                        ELSE db_results[cat]]
              /\ apc' = IF analyze_sizes THEN "sizes" ELSE "outputs"
         ELSE /\ n = 0
              /\ db_results' = Failed(db_results)
              /\ apc' = "return"
    /\ UNCHANGED <<callVars, oracle_connections, conn_no, all_results, summary,
                   clsVars, scopeVars, runVars, storeVars, extVars, parseVars>>

\* lines 2889-2893: get_oracle_sizes; every query finds as many rows as the
\* dependency queries did
analyze_database_sizes ==
    /\ apc = "sizes"
    /\ trace' = trace \o << Step(conn_no, "sizes", QueryFamily(is_dba)) >>
    /\ \E user_ok \in BOOLEAN :
         IF user_ok
         THEN /\ db_results' =
                    [db_results EXCEPT
                        !.has_size_data = TRUE,
                        !.size_data =
                            [cat \in Range(SizeCategories) |->
                                Fetched(cat, QueryFamily(is_dba) = "dba",
                                        ListLen(db_results.dependencies))]]
              /\ apc' = "outputs"
         ELSE /\ db_results' = Failed(db_results)
              /\ apc' = "return"
    /\ UNCHANGED <<callVars, oracle_connections, conn_no, all_results, summary,
                   clsVars, scopeVars, runVars, storeVars, extVars, parseVars>>

\* lines 2899-2970: the Excel writers catch their own exceptions
analyze_database_outputs ==
    /\ apc = "outputs"
    /\ \E ok \in BOOLEAN :
         trace' = trace \o Called(IF ok THEN "outputs" ELSE "outputs_failed")
    /\ apc' = "close"
    /\ UNCHANGED <<callVars, oracle_connections, conn_no, db_results,
                   all_results, summary,
                   clsVars, scopeVars, runVars, storeVars, extVars, parseVars>>

\* line 2975
analyze_database_close ==
    /\ apc = "close"
    /\ \E ok \in BOOLEAN :
         /\ trace' = Append(trace, Step(conn_no, "close",
                                        IF ok THEN "closed" ELSE "raised"))
         /\ IF ok THEN apc' = "scope" /\ UNCHANGED db_results
            ELSE apc' = "return" /\ db_results' = Failed(db_results)
    /\ UNCHANGED <<callVars, oracle_connections, conn_no, all_results, summary,
                   clsVars, scopeVars, runVars, storeVars, extVars, parseVars>>

\* what the instance does during the scope resolution of a profile
RunScopeEnvs ==
    { NominalEnv,
      [NominalEnv EXCEPT !.connect_ok = FALSE],
      [NominalEnv EXCEPT !.env.enum = [raises |-> TRUE, rows |-> <<>>]],
      [NominalEnv EXCEPT !.env.enum = [raises |-> TRUE, rows |-> <<>>],
                         !.env.user_ok = [k \in 1 .. 2 |-> FALSE]] }

\* lines 1545-1723 of run_ora2pg_analysis: the scope, then the ora2pg
\* configuration file (whose writing may raise)
analyze_database_scope ==
    /\ apc = "scope"
    /\ \E e \in RunScopeEnvs, conf_ok \in BOOLEAN :
         LET r == run_ora2pg_scope(db_config, is_dba, e)
         IN  /\ r.temp_connection = "none" /\ r.queried = 0 => e = NominalEnv
             /\ target_schema' = r.target_schema
             /\ analyzed_schemas' = r.analyzed_schemas
             /\ temp_connection' = r.temp_connection
             /\ enum_queries' = r.queried
             /\ trace' = trace \o
                   << Step(conn_no, "scope", r.temp_connection) >> \o
                   (IF r.queried > 0 THEN Called("enumerate") ELSE <<>>)
             /\ IF conf_ok
                THEN /\ conf_schema' = SchemaDirective(r.target_schema, is_dba,
                                           r.analyzed_schemas, db_config.user)
                     /\ apc' = "estimator"
                     /\ UNCHANGED db_results
                ELSE /\ apc' = "return"
                     /\ db_results' = Failed(db_results)
                     /\ UNCHANGED conf_schema
    /\ UNCHANGED <<callVars, spc, scope_env, oracle_connections, conn_no,
                   all_results, summary,
                   clsVars, runVars, storeVars, extVars, parseVars>>

\* what the two ora2pg commands leave in the output directory
RunReports ==
    { [html |-> SampleHtml, txt |-> SampleTxt],
      [html |-> Missing, txt |-> Missing] }

\* how the commands of _execute_ora2pg_command ended: subprocess.run raised,
\* or the HTML command exited with 0 or with 1
CommandResult(rc) ==
    IF rc.html = Raise \/ rc.txt = Raise THEN "raised"
    ELSE IF rc.html = 0 THEN "exit 0" ELSE "exit 1"

\* lines 1816 and 1857: the reports parse_ora2pg_report finds
ReportsRead(a) ==
    IF a.html_file.given /\ a.html_file.exists
    THEN IF a.txt_file.given /\ a.txt_file.exists THEN "html and txt" ELSE "html"
    ELSE IF a.txt_file.given /\ a.txt_file.exists THEN "txt" ELSE "none"

\* lines 1729-1746 and 2987-2988: the ora2pg commands and the parser
analyze_database_estimator ==
    /\ apc = "estimator"
    /\ \E rc \in [html : ReturnCodes, txt : ReturnCodes], on_disk \in RunReports :
         /\ rc.html # Raise \/ rc.txt = 0
         /\ \E a \in {ParserArguments(ora2pg_output_mode, rc, on_disk)} :
              /\ trace' = trace \o
                    << Step(conn_no, "estimator", CommandResult(rc)) >> \o
                    (IF a.called
                     THEN << Step(conn_no, "parse", ReportsRead(a)) >>
                     ELSE <<>>)
              /\ \E r \in {run_ora2pg_analysis(a,
                                Scope(target_schema, analyzed_schemas,
                                      temp_connection, enum_queries), is_dba)} :
                   db_results' = [db_results EXCEPT
                                     !.has_ora2pg_metrics = r.returned,
                                     !.ora2pg_metrics = r.metrics]
    /\ apc' = "return"
    /\ UNCHANGED <<callVars, oracle_connections, conn_no, all_results, summary,
                   clsVars, scopeVars, runVars, storeVars, extVars, parseVars>>

\* line 3032
db_key(cfg) ==
    << cfg.connection_name, cfg.user, IF cfg.dsn = NoKey THEN "N/A" ELSE cfg.dsn >>

\* line 3033: all_results[db_key] = results; a key the dictionary already
\* has keeps its place and takes the new value. `profile` remembers which
\* profile of the list the value is the result of
Put(items, item) ==
    IF \E k \in 1 .. Len(items) : items[k].key = item.key
    THEN [k \in 1 .. Len(items) |->
             IF items[k].key = item.key THEN item ELSE items[k]]
    ELSE Append(items, item)

\* lines 3030-3038: the result enters all_results under the profile's key
analyze_database_return ==
    /\ apc = "return"
    /\ all_results' = Put(all_results, [key |-> db_key(db_config),
                                        profile |-> conn_no,
                                        results |-> db_results])
    /\ apc' = "loop"
    /\ LocalsDropped
    /\ UNCHANGED <<oracle_connections, conn_no, trace, summary,
                   clsVars, runVars, storeVars, extVars, parseVars>>

\* lines 1401-1528: one entry per item of all_results
SummaryOf(items) ==
    [k \in 1 .. Len(items) |->
        [connection_name |-> items[k].results.connection_name,
         failed |-> items[k].results.error # ""]]

LoopExhausted_at_any_profile == TRUE

\* line 3026: the for loop has taken every profile
LoopExhausted == conn_no = Len(oracle_connections)

\* lines 3044-3046: after the last profile
save_summary_report ==
    /\ apc = "loop"
    /\ LoopExhausted
    /\ summary' = SummaryOf(all_results)
    /\ apc' = "summarized"
    /\ pc' = "analyzed"
    /\ UNCHANGED <<callVars, oracle_connections, conn_no, db_results,
                   all_results, trace, clsVars, scopeVars, analyze_sizes,
                   results, seen, connection_id, deleted_count, console,
                   storeVars, extVars, parseVars>>

-----------------------------------------------------------------------------
(* Initial conditions of the parts                                         *)

ClassifierIdle ==
    /\ cpc = "idle" /\ dba_score = 0 /\ test_no = 0 /\ executed = <<>>

ScopeIdle ==
    /\ spc = "idle" /\ scope_env = NominalEnv /\ target_schema = None /\ analyzed_schemas = <<>>
    /\ temp_connection = "none" /\ enum_queries = 0 /\ conf_schema = <<>>

RunIdle ==
    /\ results = NoResult /\ seen = {}
    /\ pc = "idle" /\ connection_id = 0 /\ deleted_count = NothingDeleted
    /\ console = <<>>

StoreEmpty ==
    /\ pdt_connections = {} /\ serial = 1
    /\ tables = [t \in TableNames |-> <<>>]

-----------------------------------------------------------------------------
(* The classifier on every configuration value and every probe outcome     *)

InitClassify ==
    /\ \E dba \in IsDbaValues :
         db_config = Profile("A", "APP", "h:1521/s", NoKey, dba, NoKey)
    /\ is_dba = FALSE
    /\ cpc = "call" /\ dba_score = 0 /\ test_no = 0 /\ executed = <<>>
    /\ ScopeIdle /\ analyze_sizes = TRUE /\ RunIdle /\ StoreEmpty /\ ExtractionIdle
    /\ ParserIdle /\ AnalysisIdle

NextClassify ==
    \/ check_dba_privileges_enter
    \/ run_dba_test
    \/ check_dba_privileges_return

SpecClassify == InitClassify /\ [][NextClassify]_vars

-----------------------------------------------------------------------------
(* The scope resolution on every profile, tier and answer of the instance  *)

InitScope ==
    /\ \E user \in Users, schema \in SchemaValues, all \in AnalyzeAllValues :
         db_config = Profile("A", user, "h:1521/s", schema, NoKey, all)
    /\ is_dba \in BOOLEAN
    /\ ClassifierIdle
    /\ spc = "call" /\ scope_env = NominalEnv
    /\ target_schema = None /\ analyzed_schemas = <<>>
    /\ temp_connection = "none" /\ enum_queries = 0 /\ conf_schema = <<>>
    /\ analyze_sizes = TRUE /\ RunIdle /\ StoreEmpty /\ ExtractionIdle
    /\ ParserIdle /\ AnalysisIdle

NextScope ==
    \/ resolve_scope
    \/ write_ora2pg_conf

SpecScope == InitScope /\ [][NextScope]_vars

-----------------------------------------------------------------------------
(* One extraction on every family and every answer of the instance         *)

InitExtract ==
    /\ db_config = Profile("A", "APP", "h:1521/s", NoKey, "'auto'", NoKey)
    /\ is_dba \in BOOLEAN
    /\ ClassifierIdle /\ ScopeIdle /\ analyze_sizes = TRUE /\ RunIdle /\ StoreEmpty
    /\ ParserIdle /\ AnalysisIdle
    /\ xpc = "call" /\ extraction \in {"dependencies", "sizes"}
    /\ queries = <<>> /\ query_results = EmptyResults(extraction)
    /\ answered = <<>>

NextExtract ==
    \/ extraction_enter
    \/ execute_query
    \/ extraction_return

SpecExtract == InitExtract /\ [][NextExtract]_vars

-----------------------------------------------------------------------------
(* Repeated executions of the program against one PostgreSQL store         *)

Init ==
    /\ db_config = NoProfile
    /\ is_dba = FALSE
    /\ ClassifierIdle /\ ScopeIdle
    /\ analyze_sizes \in BOOLEAN      \* line 58: analyze_sizes of the configuration
    /\ RunIdle /\ StoreEmpty /\ ExtractionIdle
    /\ ParserIdle /\ AnalysisIdle

Next ==
    \/ run_analysis
    \/ save_to_postgresql_begin
    \/ skip_result
    \/ get_or_create_connection_id
    \/ cleanup_existing_data
    \/ insert_results
    \/ save_to_postgresql_end
    \/ final_report
    \/ exit_process

Spec == Init /\ [][Next]_vars

-----------------------------------------------------------------------------
(* The report parser on every report of the model                          *)

InitParse ==
    /\ db_config = NoProfile
    /\ is_dba = FALSE
    /\ ClassifierIdle /\ ScopeIdle /\ analyze_sizes = TRUE /\ RunIdle /\ StoreEmpty
    /\ ExtractionIdle /\ AnalysisIdle
    /\ ppc = "run"
    /\ \/ /\ ora2pg_output_mode \in Modes
          /\ reports \in [html : {SampleHtml, Missing}, txt : TxtFiles]
       \/ /\ ora2pg_output_mode = "html_and_txt"
          /\ reports \in [html : HtmlFiles, txt : {SampleTxt}]
    /\ returncode = [html |-> 0, txt |-> 0]
    /\ html_file = NoFile /\ txt_file = NoFile /\ metrics = DefaultMetrics

NextParse ==
    \/ execute_ora2pg_command
    \/ parse_ora2pg_report_txt
    \/ parse_ora2pg_report_html

SpecParse == InitParse /\ [][NextParse]_vars

-----------------------------------------------------------------------------
(* One execution of the program, from the first profile to the last INSERT *)

\* the profiles of the configurations of the model
RunProfiles ==
    { Profile("A", "APP", "h:1521/s", NoKey, "false", NoKey),
      Profile("A", "APP", "h:1521/s", NoKey, "'auto'", NoKey),
      Profile("B", "SCOTT", NoKey, NoKey, "'auto'", NoKey),
      Profile("B", "SCOTT", "''", NoKey, "'auto'", NoKey),
      Profile("B", "SCOTT", "h:1521/s", "HR", "true", "false") }

\* lines 127-167: at least one profile, each with a name and a user; the
\* lists of the model have one profile, or two with different names, or two
\* different ones with the same name, user and DSN
ConfigLists ==
    {<<p>> : p \in RunProfiles} \cup
    {pq \in RunProfiles \X RunProfiles :
        \/ pq[1].connection_name # pq[2].connection_name
        \/ pq[1] # pq[2] /\ db_key(pq[1]) = db_key(pq[2])}

InitRun ==
    /\ db_config = NoProfile
    /\ is_dba = FALSE
    /\ ClassifierIdle /\ ScopeIdle
    /\ analyze_sizes = TRUE          \* line 58: the default
    /\ RunIdle /\ StoreEmpty /\ ExtractionIdle
    /\ ppc = "idle" /\ ora2pg_output_mode = "html_and_txt"
    /\ reports = [html |-> NoFile, txt |-> NoFile]
    /\ returncode = [html |-> 0, txt |-> 0]
    /\ html_file = NoFile /\ txt_file = NoFile /\ metrics = DefaultMetrics
    /\ oracle_connections \in ConfigLists
    /\ conn_no = 0 /\ apc = "loop"
    /\ db_results = NoResult /\ all_results = <<>> /\ trace = <<>>
    /\ summary = <<>>

NextRun ==
    \/ analyze_database_enter
    \/ analyze_database_connect
    \/ analyze_database_classify
    \/ analyze_database_dependencies
    \/ analyze_database_sizes
    \/ analyze_database_outputs
    \/ analyze_database_close
    \/ analyze_database_scope
    \/ analyze_database_estimator
    \/ analyze_database_return
    \/ save_summary_report
    \/ save_to_postgresql_begin
    \/ skip_result
    \/ get_or_create_connection_id
    \/ cleanup_existing_data
    \/ insert_results
    \/ save_to_postgresql_end
    \/ final_report

SpecRun == InitRun /\ [][NextRun]_vars

\* the program is one sequential thread: while a statement remains to be
\* executed, one is executed (every call it makes returns or raises)
SpecRunFair == SpecRun /\ WF_vars(NextRun)

-----------------------------------------------------------------------------
(* Properties of the classifier (SpecClassify)                             *)

\* the "is_dba" key holds a JSON boolean
BooleanOverride == db_config.is_dba_cfg \in {"true", "false"}

\* number of executed probes whose COUNT(*) was positive
PassingProbes == Cardinality({i \in 1 .. Len(executed) : executed[i] > 0})

CeilHalf(n) == (n + 1) \div 2

\* C6: without a boolean override, when the classifier returns, every one of
\* the 4 probes was executed (a raising probe counts as not passing and does
\* not stop the others) and the answer is Elevated exactly when the number
\* of passing probes is at least ceil(4/2) = 2.
C6_MajorityOfProbes ==
    (cpc = "returned" /\ ~BooleanOverride) =>
        /\ Len(executed) = total_tests
        /\ total_tests = 4 /\ CeilHalf(total_tests) = 2
        /\ is_dba = (PassingProbes >= CeilHalf(total_tests))

\* exactly 2 of 4 probes pass, the first probe raised, the answer is Elevated
C6_Witness ==
    /\ cpc = "returned" /\ ~BooleanOverride
    /\ Len(executed) = 4 /\ executed[1] = Raise
    /\ PassingProbes = 2 /\ is_dba

\* C7: with a boolean override no probe is ever executed, and the classifier
\* returns that boolean.
C7_OverrideSkipsProbes ==
    BooleanOverride =>
        /\ executed = <<>>
        /\ cpc # "tests"
        /\ cpc = "returned" => is_dba = (db_config.is_dba_cfg = "true")

\* override true: Elevated is returned and no probe ran
C7_Witness ==
    /\ cpc = "returned" /\ db_config.is_dba_cfg = "true"
    /\ is_dba /\ executed = <<>>

\* the "is_dba" key is absent, is "auto", or holds another value that is not
\* a JSON boolean: a string, a number, null
NonBooleanOverride ==
    db_config.is_dba_cfg \in {NoKey, "'auto'", "'true'", "'false'", "1", "null"}

\* C30: when the override is absent, "auto" or any other value that is not a
\* boolean (the string "true" for one), the classifier never returns from
\* the configuration: it runs the 4 probes and its answer depends on their
\* outcomes alone, so that no probe passing gives Restricted and all of them
\* passing gives Elevated whatever the value is.
C30_NonBooleanOverrideRunsProbes ==
    NonBooleanOverride =>
        /\ cpc = "tests" => Len(executed) = test_no - 1
        /\ cpc = "returned" =>
              /\ Len(executed) = total_tests
              /\ PassingProbes = 0 => ~is_dba
              /\ PassingProbes = total_tests => is_dba
              /\ is_dba = (PassingProbes >= DbaThreshold)

\* the override is the string "true", the 4 probes ran, one passed and the
\* answer is Restricted
C30_Witness ==
    /\ cpc = "returned" /\ db_config.is_dba_cfg = "'true'"
    /\ Len(executed) = 4 /\ PassingProbes = 1 /\ ~is_dba

-----------------------------------------------------------------------------
(* Properties of the scope resolution (SpecScope)                          *)

\* the profile has a non-empty "schema"
HasExplicitSchema == db_config.schema \notin {NoKey, None, "null", "''"}

\* the profile asks for the whole instance (the default) or for one schema
WholeInstance == db_config.analyze_all_schemas \in {NoKey, "true"}

ScopeResolved == spc \in {"resolved", "conf_written"}

\* the scope is the single schema s, also in the estimator's configuration
ScopeIsOnly(s) ==
    /\ analyzed_schemas = <<s>>
    /\ spc = "conf_written" => conf_schema = <<s>>

\* C8: with an explicit schema the scope is exactly that schema, at both
\* tiers and for both values of the whole-instance flag, and neither the
\* temporary connection nor the enumeration query is used.
C8_ExplicitSchemaWins ==
    (ScopeResolved /\ HasExplicitSchema) =>
        /\ ScopeIsOnly(db_config.schema)
        /\ target_schema = db_config.schema
        /\ enum_queries = 0
        /\ temp_connection = "none"

\* Elevated, whole instance requested, explicit schema HR: the scope is HR
C8_Witness ==
    /\ spc = "conf_written" /\ HasExplicitSchema
    /\ is_dba /\ WholeInstance /\ db_config.user # db_config.schema
    /\ conf_schema = <<db_config.schema>> /\ enum_queries = 0

\* C9: without an explicit schema the scope is exactly the principal's own
\* schema when the tier is Restricted, and when the tier is Elevated with
\* the whole-instance flag off.
C9_OwnSchemaOnly ==
    (ScopeResolved /\ ~HasExplicitSchema /\ (~is_dba \/ ~WholeInstance)) =>
        ScopeIsOnly(db_config.user)

\* Elevated, single schema requested, on an instance with other schemas
C9_Witness ==
    /\ spc = "conf_written" /\ ~HasExplicitSchema
    /\ is_dba /\ ~WholeInstance
    /\ temp_connection = "closed"
    /\ Len(scope_env.env.enum.rows) > 1
    /\ conf_schema = <<db_config.user>>

\* the enumeration query was executed and raised, or returned no row
EnumerationFailed ==
    /\ enum_queries = 1
    /\ scope_env.env.enum.raises \/ scope_env.env.enum.rows = <<>>

\* C10: Elevated, whole instance, no explicit schema: when the enumeration
\* raises or returns nothing, the call still resolves a scope (no exception
\* leaves it) and the scope is exactly the principal's own schema.
C10_EnumerationFallback ==
    (spc # "call" /\ is_dba /\ WholeInstance /\ ~HasExplicitSchema
        /\ EnumerationFailed) =>
        /\ ScopeResolved
        /\ ScopeIsOnly(db_config.user)

\* the enumeration returned no schema and the configuration was written
C10_Witness ==
    /\ spc = "conf_written" /\ is_dba /\ WholeInstance /\ ~HasExplicitSchema
    /\ enum_queries = 1
    /\ ~scope_env.env.enum.raises /\ scope_env.env.enum.rows = <<>>
    /\ conf_schema = <<db_config.user>>

-----------------------------------------------------------------------------
(* Properties of the persistence (Spec)                                    *)

\* the three transactions of the current item have committed
Committed == pc = "loop" /\ results # NoResult /\ ~Skipped(results)

\* the rows the store holds for the current connection in a table
Held(table) == RowsOf(tables, table, connection_id)

\* the schema label of the current run
Label == IF db_config.schema = NoKey THEN results.schema ELSE db_config.schema

\* what the current run found for a table of its tier's family or of the
\* cost tables, as rows of the current connection
Findings(table) ==
    IF \E cat \in Range(DepCategories) :
            table = dep_prefix(results.is_dba) \o DepTable(cat)
    THEN LET cat == CHOOSE c \in Range(DepCategories) :
                        table = dep_prefix(results.is_dba) \o DepTable(c)
         IN  StoreAll(connection_id, None, results[cat])
    ELSE IF \E cat \in Range(SizeCategories) :
            table = size_prefix(results.is_dba) \o cat
    THEN LET cat == CHOOSE c \in Range(SizeCategories) :
                        table = size_prefix(results.is_dba) \o c
         IN  StoreAll(connection_id, None, results.size_data[cat])
    ELSE IF table = "ptd_ora2pg_object_summary"
    THEN StoreAll(connection_id, Label, results.ora2pg_metrics.ora2pg_object_summary)
    ELSE IF table = "ptd_ora2pg_estimates" /\ results.has_ora2pg_metrics
    THEN << EstimateRow(connection_id, Label, results.ora2pg_metrics) >>
    ELSE <<>>

DepsTable  == dep_prefix(results.is_dba) \o "dependencies"
LinesTable == size_prefix(results.is_dba) \o "code_lines"

TooManyLines == ListLen(results.size_data["code_lines"]) > CodeLinesLimit

\* C1: when a committed run of N dependency edges replaced N dependency rows
\* of the same connection and tier (the same bundle persisted again: at a
\* tier a bundle of N edges is one list of rows), the tier's dependency
\* table holds exactly N rows for the connection.
C1_RepersistKeepsN ==
    (Committed /\ deleted_count[DepsTable] = ListLen(results.dependencies)) =>
        RowCount(Held(DepsTable)) = ListLen(results.dependencies)

\* a bundle of 2 edges persisted over the same 2 edges
C1_Witness ==
    /\ Committed
    /\ ListLen(results.dependencies) = 2
    /\ deleted_count[DepsTable] = 2
    /\ Held(DepsTable) = Findings(DepsTable)

\* C2 as stated: after the commit, every table of the tier's family and of
\* the cost tables holds for the connection exactly what the run found,
\* source-code lines included.
C2_ExactlyThisRun ==
    Committed =>
        \A t \in Range(CostTables) \cup FamilyTables(results.is_dba) :
            Held(t) = Findings(t)

\* C2 amended: as stated, except that the source-code lines are stored only
\* when the run found at most 10000 of them; when it found more, none is
\* stored for the connection (the rows of the prior run are still deleted).
C2_ExactlyThisRunUpToLineLimit ==
    Committed =>
        \A t \in Range(CostTables) \cup FamilyTables(results.is_dba) :
            Held(t) = IF t = LinesTable /\ TooManyLines THEN <<>> ELSE Findings(t)

\* more than 10000 source lines found: the prior run's lines are gone, none
\* of this run is stored, every other category holds this run's rows
C2_Witness ==
    /\ Committed /\ TooManyLines
    /\ deleted_count[LinesTable] > 0
    /\ Held(LinesTable) = <<>>
    /\ Held(DepsTable) = Findings(DepsTable) /\ Held(DepsTable) # <<>>
    /\ deleted_count[DepsTable] = 1

\* C3: the steps of a run at one tier leave every table of the other tier's
\* family unchanged; and after the commit no row of an earlier run of the
\* connection remains in the run's own family: each table holds what this
\* run found (or nothing, for the source-code lines).
C3_TierSwitchFrame ==
    /\ [][(pc \in {"cleanup", "insert"}) =>
            \A t \in FamilyTables(~results.is_dba) : (tables'[t] = tables[t])
         ]_vars
    /\ [](Committed =>
            \A t \in FamilyTables(results.is_dba) :
                Held(t) = Findings(t) \/ (t = LinesTable /\ Held(t) = <<>>))

\* an Elevated run replaced Elevated rows of the connection while its
\* Restricted rows of an earlier run are still there
C3_Witness ==
    /\ Committed /\ results.is_dba
    /\ deleted_count[dep_prefix(TRUE) \o "dependencies"] = 1
    /\ ListLen(results.dependencies) = 2
    /\ Held(dep_prefix(TRUE) \o "dependencies") = Findings(DepsTable)
    /\ RowCount(Held(dep_prefix(FALSE) \o "dependencies")) = 2
    /\ Held("pdt_sizes_nodba_tablespace_size") # <<>>

\* the identity row of the current item
CurrentRow(r) ==
    /\ r.connection_name = db_config.connection_name
    /\ r.id = connection_id

\* C4: the identity table never holds two rows with one name or one key; a
\* row is never removed and keeps its name and key; a step changes a row
\* only when it is the upsert of that row's name; and once the upsert of a
\* run has committed, the row of its name carries the run's tier, schema
\* and whole-instance flag.
C4_OneRowPerName ==
    /\ [](\A r1, r2 \in pdt_connections :
            (r1.connection_name = r2.connection_name \/ r1.id = r2.id) => r1 = r2)
    /\ [][\A r \in pdt_connections :
            \/ r \in pdt_connections'
            \/ /\ pc = "loop" /\ pc' = "cleanup"
               /\ r.connection_name = db_config'.connection_name
               /\ \E r2 \in pdt_connections' :
                    r2.id = r.id /\ r2.connection_name = r.connection_name]_vars
    /\ []((pc \in {"cleanup", "insert"} \/ Committed) =>
            \E r \in pdt_connections :
                /\ CurrentRow(r)
                /\ r.is_dba = results.is_dba
                /\ r.schema = IF db_config.schema = NoKey THEN None
                              ELSE db_config.schema
                /\ r.analyze_all_schemas = WholeInstance)

\* the upsert of a name that was persisted before as Restricted and without
\* a schema: same key, now Elevated with schema HR and the flag off
C4_Witness ==
    /\ pc = "cleanup" /\ results.is_dba
    /\ Held(dep_prefix(FALSE) \o "dependencies") # <<>>
    /\ Held("ptd_ora2pg_estimates") # <<>>
    /\ Held("ptd_ora2pg_estimates")[1].schema_name = db_config.user
    /\ Cardinality(pdt_connections) = 2
    /\ \E r \in pdt_connections :
         CurrentRow(r) /\ r.is_dba /\ r.schema = "HR" /\ ~r.analyze_all_schemas

\* C5: the two cost tables are cleaned and filled by the runs of both tiers;
\* a connection never has more than one estimate row; after the commit the
\* cost tables hold for the connection exactly the cost rows of this run,
\* each labelled with the run's schema label.
C5_CostRowsOfLastRun ==
    /\ \A r \in pdt_connections :
         Len(RowsOf(tables, "ptd_ora2pg_estimates", r.id)) <= 1
    /\ Committed =>
         \A t \in Range(CostTables) :
            /\ Held(t) = Findings(t)
            /\ \A i \in 1 .. Len(Held(t)) : Held(t)[i].schema_name = Label

\* an Elevated run with schema HR replaced the estimate and the entries of
\* an earlier Restricted run of the connection
C5_Witness ==
    /\ Committed /\ results.is_dba
    /\ Held(dep_prefix(FALSE) \o "dependencies") # <<>>
    /\ deleted_count["ptd_ora2pg_estimates"] = 1
    /\ deleted_count["ptd_ora2pg_object_summary"] = 2
    /\ Len(Held("ptd_ora2pg_estimates")) = 1
    /\ Held("ptd_ora2pg_estimates")[1].schema_name = "HR"
    /\ Len(Held("ptd_ora2pg_object_summary")) = 1

-----------------------------------------------------------------------------
(* Properties of the extraction (SpecExtract)                              *)

\* the queries the loop has executed, in order
AnsweredQueries == [i \in 1 .. Len(answered) |-> answered[i].query]

\* what the instance did with an executed query
OutcomeOf(cat) ==
    answered[CHOOSE i \in 1 .. Len(answered) : answered[i].query = cat].outcome

\* C11: in both families and both extractions, once the loop has started the
\* call never ends with an exception; each step keeps the entries of the
\* queries already executed; and when the call returns every query of the
\* family was executed once, in order, the entry of a query that raised is
\* empty and the entry of every other query holds the rows it fetched.
C11_QueryFailureIsolated ==
    /\ [](xpc = "raised" => answered = <<>>)
    /\ [][\A i \in 1 .. Len(answered) :
            query_results'[answered[i].query] = query_results[answered[i].query]
         ]_vars
    /\ [](xpc = "returned" =>
            /\ AnsweredQueries = QueriesOf(extraction)
            /\ \A cat \in Range(QueriesOf(extraction)) :
                 query_results[cat] =
                    IF OutcomeOf(cat) < 0 THEN <<>>
                    ELSE Fetched(cat, is_dba, OutcomeOf(cat)))

\* a size extraction of the Elevated family returned although its third and
\* last queries raised; the rows fetched before and between them are kept
C11_Witness ==
    /\ xpc = "returned" /\ extraction = "sizes" /\ is_dba
    /\ OutcomeOf("schema_size") = Raise /\ OutcomeOf("code_stats") = Raise
    /\ OutcomeOf("tablespace_size") = 1 /\ OutcomeOf("table_size") = 1
    /\ query_results["schema_size"] = <<>> /\ query_results["code_stats"] = <<>>
    /\ Len(query_results["tablespace_size"]) = 1
    /\ Len(query_results["table_size"]) = 1

\* the step changes what the store holds of the connection: its identity
\* row, or its rows in a table
Touches(c) ==
    \/ c \notin pdt_connections'
    \/ \E t \in TableNames : RowsOf(tables', t, c.id) # RowsOf(tables, t, c.id)

\* the item the step works on is a result without error of that name
WorksOnSuccessOf(connection_name) ==
    /\ results'.connection_name = connection_name
    /\ results'.error = ""

\* C26: a result with an error (no DSN, or an exception during the
\* analysis) is skipped: taking it changes nothing in the store. The
\* identity row of a connection and its rows in every table, of both
\* families and of the cost tables, are created, changed or deleted only
\* by the steps that work on a result without error of that connection,
\* and a run takes each connection once.
C26_ErrorResultsAreSkipped ==
    /\ [][(seen' # seen /\ results'.error # "")
            => (pc' = pc /\ UNCHANGED storeVars)]_vars
    /\ [][\A c \in pdt_connections :
            Touches(c) => WorksOnSuccessOf(c.connection_name)]_vars
    /\ [][\A c \in pdt_connections' \ pdt_connections :
            WorksOnSuccessOf(c.connection_name)]_vars
    /\ [][(seen' # seen /\ seen' # {})
            => results'.connection_name \notin seen]_vars

\* a profile that an earlier run stored, in both families, now has no DSN:
\* its result is skipped and its identity row and rows are still there
C26_Witness ==
    /\ pc = "loop"
    /\ results.error = "DSN mancante nella configurazione"
    /\ \E c \in pdt_connections :
          /\ c.connection_name = results.connection_name
          /\ c.dsn = "h:1521/s"
          /\ RowsOf(tables, "pdt_dep_dba_dependencies", c.id) # <<>>
          /\ RowsOf(tables, "pdt_dep_nodba_dependencies", c.id) # <<>>
          /\ RowsOf(tables, "ptd_ora2pg_estimates", c.id) # <<>>

\* the tables of the run's tier and the cost tables
OwnTables == FamilyTables(results.is_dba) \cup Range(CostTables)

\* what the store holds for the current connection in a table after the step
HeldAfter(table) == RowsOf(tables', table, connection_id)

\* C27: when the inserts of a connection start, its rows of earlier runs in
\* the tables of the run's tier and in the cost tables are deleted and
\* that deletion is committed. The inserts take effect in one step: either
\* every table gets the rows of this run, or, on a failure, no table gets
\* any of them, the store stays as the deletion left it (the connection
\* has no row in its tier's tables and in the cost tables), and nothing
\* changes in the store until the process ends.
C27_DeleteCommittedInsertAllOrNothing ==
    /\ [](pc = "insert" => \A t \in OwnTables : Held(t) = <<>>)
    /\ [][pc = "insert" =>
            \/ /\ pc' = "loop"
               /\ \A t \in OwnTables :
                     HeldAfter(t) = Findings(t)
                        \/ (t = LinesTable /\ TooManyLines /\ HeldAfter(t) = <<>>)
            \/ /\ pc' = "save_failed"
               /\ UNCHANGED storeVars
               /\ \A t \in OwnTables : HeldAfter(t) = <<>>
         ]_vars
    /\ [][(pc \in {"save_failed", "reported"}) => (UNCHANGED storeVars)]_vars

\* the inserts of a run that found dependencies failed after the deletion
\* of the two dependency rows and of the estimate of an earlier run: the
\* connection has no row left in these tables
C27_Witness ==
    /\ pc = "save_failed"
    /\ deleted_count[DepsTable] = 2
    /\ deleted_count["ptd_ora2pg_estimates"] = 1
    /\ Findings(DepsTable) # <<>>
    /\ \A t \in OwnTables : Held(t) = <<>>
    /\ \E c \in pdt_connections : c.id = connection_id

-----------------------------------------------------------------------------
(* Properties of one execution (SpecRun)                                   *)

\* the profile at position k of the list has the override false and no
\* schema of its own
OverrideFalse(k) ==
    /\ oracle_connections[k].is_dba_cfg = "false"
    /\ oracle_connections[k].schema = NoKey

\* the items of all_results that hold the result of such a profile
OverrideFalseItems ==
    {k \in 1 .. Len(all_results) : OverrideFalse(all_results[k].profile)}

\* the item the persistence loop is working on is the result of such a
\* profile
StoringOverrideFalse ==
    /\ pc \in {"cleanup", "insert"} \/ Committed
    /\ \E k \in OverrideFalseItems : all_results[k].results = results

\* C12: for a profile with the override false and no schema the run makes
\* no probe query; the scope is the user's own schema, found without an
\* enumeration; every dependency and size extraction runs the non-DBA
\* family; the result holds six-column tablespace rows (tablespace, segment
\* count, two sizes and two object counts: no allocated or free space); and
\* persistence puts them into pdt_sizes_nodba_tablespace_size and puts
\* nothing of the connection into the DBA family.
C12_OverrideFalseIsRestricted ==
    /\ \A i \in 1 .. Len(trace) :
         OverrideFalse(trace[i].profile) =>
            /\ trace[i].step \notin {"probe", "enumerate"}
            /\ trace[i].step \in {"dependencies", "sizes"} =>
                  trace[i].family = "nodba"
    /\ (apc = "estimator" /\ OverrideFalse(conn_no)) =>
            /\ target_schema = None /\ enum_queries = 0
            /\ analyzed_schemas = << db_config.user >>
            /\ conf_schema = << db_config.user >>
    /\ \A k \in OverrideFalseItems :
         LET r == all_results[k].results
         IN  /\ ~r.is_dba
             /\ \A i \in 1 .. Len(r.size_data["tablespace_size"]) :
                   r.size_data["tablespace_size"][i].ncols = 6
             /\ r.has_ora2pg_metrics =>
                   /\ r.ora2pg_metrics.analyzed_schemas = << r.schema >>
                   /\ ~r.ora2pg_metrics.dba_mode
    /\ StoringOverrideFalse =>
            \A t \in FamilyTables(TRUE) : Held(t) = <<>>
    /\ (StoringOverrideFalse /\ Committed) =>
            /\ Held("pdt_sizes_nodba_tablespace_size") =
                  StoreAll(connection_id, None,
                           results.size_data["tablespace_size"])
            /\ \A i \in 1 .. Len(Held("pdt_sizes_nodba_tablespace_size")) :
                  Held("pdt_sizes_nodba_tablespace_size")[i].ncols = 6

\* the result of such a profile, with a tablespace row, is stored
C12_Witness ==
    /\ StoringOverrideFalse /\ Committed
    /\ Len(Held("pdt_sizes_nodba_tablespace_size")) = 1
    /\ \E i \in 1 .. Len(trace) :
         OverrideFalse(trace[i].profile) /\ trace[i].step = "sizes"
    /\ \E i \in 1 .. Len(trace) :
         OverrideFalse(trace[i].profile) /\ trace[i].step = "classify"

\* the profile at position k of the list has no DSN, or an empty one
MissingAddress(k) == oracle_connections[k].dsn \in {NoKey, "''"}

\* the local variables of analyze_database and run_ora2pg_analysis hold
\* nothing of a profile
NoLocals ==
    /\ db_config = NoProfile /\ is_dba = FALSE /\ db_results = NoResult
    /\ target_schema = None /\ analyzed_schemas = <<>>
    /\ temp_connection = "none" /\ enum_queries = 0 /\ conf_schema = <<>>

\* C13: a profile without a DSN, or with an empty one, gets the result
\* "DSN mancante nella configurazione" and no connection, classification,
\* extraction, scope resolution or ora2pg call is made for it; its result
\* is never stored. The other profiles are not affected: every profile
\* starts with the same local state, whatever preceded it, and handling the
\* profile without DSN changes nothing but the loop position and the
\* profile's own entry of all_results.
C13_MissingDsnIsSkipped ==
    /\ [](\A i \in 1 .. Len(trace) : ~MissingAddress(trace[i].profile))
    /\ [](\A k \in 1 .. Len(all_results) :
            MissingAddress(all_results[k].profile) =>
               all_results[k].results =
                  ErrorResult(oracle_connections[all_results[k].profile],
                              "DSN mancante nella configurazione"))
    /\ [](\A k \in 1 .. Len(oracle_connections) : \A r \in pdt_connections :
            MissingAddress(k) =>
               r.connection_name # oracle_connections[k].connection_name)
    /\ [](apc = "loop" => NoLocals)
    /\ [][(/\ <<apc, apc'>> \in {<<"loop", "return">>, <<"return", "loop">>}
            /\ MissingAddress(conn_no'))
            => /\ UNCHANGED <<trace, summary, runVars, storeVars, parseVars,
                              extVars, clsVars, is_dba, oracle_connections>>
               /\ apc = "loop" => (conn_no' = conn_no + 1 /\ UNCHANGED all_results)
               /\ apc = "return" => (NoLocals' /\ UNCHANGED conn_no)
               /\ \A k \in 1 .. Len(all_results) :
                     /\ all_results'[k].key = all_results[k].key
                     /\ all_results[k].key # db_key(oracle_connections[conn_no'])
                           => all_results'[k] = all_results[k]
         ]_vars

\* the second of two profiles was analyzed and stored after the first,
\* which has no DSN, got its error result
C13_Witness ==
    /\ Len(oracle_connections) = 2 /\ MissingAddress(1) /\ ~MissingAddress(2)
    /\ Len(all_results) = 2
    /\ all_results[1].results.error = "DSN mancante nella configurazione"
    /\ all_results[2].results.error = ""
    /\ Committed /\ results = all_results[2].results
    /\ \E i \in 1 .. Len(trace) : trace[i].step = "estimator"

\* connection names are unique in the configuration
UniqueNames ==
    \A j, k \in 1 .. Len(oracle_connections) :
        j # k => oracle_connections[j].connection_name #
                 oracle_connections[k].connection_name

\* the analysis of the profile at position k went through its last step
Completed(k) ==
    \E i \in 1 .. Len(trace) : trace[i].profile = k /\ trace[i].step = "estimator"

\* the analysis of the profile at position k is ending with an exception
FailingAt(k) == conn_no = k /\ apc = "return" /\ db_results.error # ""

\* C14: whatever fails while a profile is analyzed (connection,
\* classification, extraction, closing, the ora2pg configuration, ora2pg
\* itself), and whether or not the output files were written, the loop goes
\* through the profiles in order; after a failure at a profile the next one
\* is entered; the summary is eventually written; and when it is written,
\* all_results holds, for a configuration with unique names, one result per
\* profile, in order, which either carries an error string or is the record
\* of an analysis that went through all its steps, and the summary has one
\* entry for each of them.
C14_EveryProfileGetsAResult ==
    /\ [][conn_no' # conn_no => conn_no' = conn_no + 1]_vars
    /\ \A k \in 1 .. 2 :
         (FailingAt(k) /\ k < Len(oracle_connections)) ~> (conn_no = k + 1)
    /\ <>(apc = "summarized")
    /\ [](apc = "summarized" =>
            /\ conn_no = Len(oracle_connections)
            /\ summary = SummaryOf(all_results)
            /\ UniqueNames =>
                  /\ Len(all_results) = Len(oracle_connections)
                  /\ Len(summary) = Len(oracle_connections)
                  /\ \A k \in 1 .. Len(all_results) :
                        /\ all_results[k].profile = k
                        /\ all_results[k].results.connection_name =
                              oracle_connections[k].connection_name
                        /\ summary[k].failed = ~Completed(k)
                        /\ \/ all_results[k].results.error # ""
                           \/ /\ all_results[k].results.error = ""
                              /\ Completed(k))

\* the first of two profiles failed after its connection was made, the
\* second was analyzed to the end, and the summary covers both
C14_Witness ==
    /\ apc = "summarized" /\ Len(oracle_connections) = 2 /\ UniqueNames
    /\ Len(summary) = 2 /\ summary[1].failed /\ ~summary[2].failed
    /\ \E i \in 1 .. Len(trace) :
          trace[i].profile = 1 /\ trace[i].step = "dependencies"
    /\ ~Completed(1) /\ Completed(2)

\* the place of a call in the order the claim gives: classify, resolve the
\* scope, extract, call ora2pg, parse
ClaimedRank(step) ==
    CASE step \in {"classify", "probe"}        -> 1
      [] step \in {"scope", "enumerate"}       -> 2
      [] step \in {"dependencies", "sizes"}    -> 3
      [] step = "estimator"                    -> 4
      [] step = "parse"                        -> 5
      [] OTHER                                 -> 0

\* the place of a call in analyze_database
CodeRank(step) ==
    CASE step = "connect"                         -> 1
      [] step \in {"classify", "probe"}           -> 2
      [] step = "dependencies"                    -> 3
      [] step = "sizes"                           -> 4
      [] step \in {"outputs", "outputs_failed"}   -> 5
      [] step = "close"                           -> 6
      [] step \in {"scope", "enumerate"}          -> 7
      [] step = "estimator"                       -> 8
      [] step = "parse"                           -> 9

\* nothing was stored yet
NothingStored ==
    /\ pdt_connections = {} /\ \A t \in TableNames : tables[t] = <<>>

\* the profiles whose result the persistence loop has taken
Persisted == {k \in 1 .. Len(all_results) :
                 all_results[k].results.connection_name \in seen}

EstimatorEnded(k, how) ==
    \E i \in 1 .. Len(trace) :
        /\ trace[i].profile = k /\ trace[i].step = "estimator"
        /\ trace[i].family = how

\* the parser was called for the profile at position k and found these
\* reports
ParserFound(k, found) ==
    \E i \in 1 .. Len(trace) :
        /\ trace[i].profile = k /\ trace[i].step = "parse"
        /\ trace[i].family = found

\* the result carries an estimate with cost zero and level "Unknown"
DefaultEstimate(r) ==
    /\ r.has_ora2pg_metrics
    /\ r.ora2pg_metrics.total_cost = FloatZero
    /\ r.ora2pg_metrics.migration_level = <<"U", "n", "k", "n", "o", "w", "n">>

Classified(k, tier) ==
    \E i \in 1 .. Len(trace) : trace[i] = Step(k, "classify", tier)

\* the tables of the tier's family that the store has
TierTables(tier) ==
    {t \in DOMAIN tables :
        t \in {"pdt_dep_" \o tier \o "_" \o c :
                  c \in {"dependencies", "db_links", "cross_schema_privileges",
                         "external_references"}} \cup
              {"pdt_sizes_" \o tier \o "_" \o c : c \in Range(SizeCategories)}}

OtherTier(tier) == IF tier = "dba" THEN "nodba" ELSE "dba"

\* the columns of a tablespace record of the tier
TablespaceCols(tier) == IF tier = "dba" THEN 16 ELSE 6

\* the calls made for the profile at position k used the tier
CallsUse(k, tier) ==
    \A i \in 1 .. Len(trace) :
        trace[i].profile = k =>
           /\ trace[i].step \in {"dependencies", "sizes"} => trace[i].family = tier
           /\ trace[i].step = "enumerate" => tier = "dba"
           /\ (trace[i].step = "scope" /\ trace[i].family # "none") => tier = "dba"

\* the result record holds the tier, tablespace records of its shape and
\* a scope resolved by its rule
ResultUses(r, tier) ==
    /\ r.error = "" => r.is_dba = (tier = "dba")
    /\ \A i \in 1 .. Len(r.size_data["tablespace_size"]) :
          r.size_data["tablespace_size"][i].ncols = TablespaceCols(tier)
    /\ r.ora2pg_metrics.dba_mode => tier = "dba"
    /\ (r.has_ora2pg_metrics /\ tier = "nodba"
          /\ r.ora2pg_metrics.target_schema = "auto")
          => r.ora2pg_metrics.analyzed_schemas = << r.schema >>

\* what the store holds of the connection is in the tier's family only
StoreUses(connection_name, tier) ==
    \A c \in pdt_connections :
        c.connection_name = connection_name =>
           /\ c.is_dba = (tier = "dba")
           /\ \A t \in TierTables(OtherTier(tier)) : RowsOf(tables, t, c.id) = <<>>
           /\ \A i \in 1 .. Len(tables["pdt_sizes_" \o tier \o "_tablespace_size"]) :
                 tables["pdt_sizes_" \o tier \o "_tablespace_size"][i].connection_id = c.id
                    => tables["pdt_sizes_" \o tier \o "_tablespace_size"][i].ncols
                          = TablespaceCols(tier)

\* C25: the tier check_dba_privileges answered for a profile is the one of
\* every dependency and size extraction of that profile, of the shape of
\* its tablespace records, of its scope rule, and of the table family
\* persistence writes its result to: no row of the connection is in the
\* other tier's tables.
C25_OneTierPerProfile ==
    \A tier \in {"dba", "nodba"} :
        /\ \A k \in 1 .. Len(oracle_connections) :
              Classified(k, tier) => CallsUse(k, tier)
        /\ (apc \in {"dependencies", "sizes", "outputs", "close", "scope",
                      "estimator", "return"} /\ Classified(conn_no, tier))
              => ResultUses(db_results, tier)
        /\ \A k \in 1 .. Len(all_results) :
              Classified(all_results[k].profile, tier) =>
                 /\ ResultUses(all_results[k].results, tier)
                 /\ all_results[k].results.error = "" =>
                       StoreUses(all_results[k].results.connection_name, tier)

\* a profile classified as DBA and one classified as non-DBA were both
\* stored, each with rows in the tablespace table of its tier
C25_Witness ==
    /\ pc = "saved" /\ Len(all_results) = 2
    /\ Classified(all_results[1].profile, "nodba")
    /\ Classified(all_results[2].profile, "dba")
    /\ \E c \in pdt_connections :
          /\ c.connection_name = all_results[1].results.connection_name
          /\ RowsOf(tables, "pdt_sizes_nodba_tablespace_size", c.id) # <<>>
    /\ \E c \in pdt_connections :
          /\ c.connection_name = all_results[2].results.connection_name
          /\ RowsOf(tables, "pdt_sizes_dba_tablespace_size", c.id) # <<>>

\* save_to_postgresql printed that it failed
SaveFailed == \E i \in 1 .. Len(console) : console[i] = SaveError

\* save_to_postgresql printed that the data of the connection are saved
SavedLine(connection_name) ==
    \E i \in 1 .. Len(console) :
        console[i] = Said("Dati salvati per", connection_name)

\* the store holds the identity row of the connection
HasIdentityRow(connection_name) ==
    \E c \in pdt_connections : c.connection_name = connection_name

\* the store holds as many dependency rows of the connection as the result
\* has dependencies, in the table of the result's tier
HoldsDependenciesOf(r) ==
    \E c \in pdt_connections :
        /\ c.connection_name = r.connection_name
        /\ RowCount(RowsOf(tables, IF r.is_dba THEN "pdt_dep_dba_dependencies"
                                   ELSE "pdt_dep_nodba_dependencies", c.id))
              = ListLen(r.dependencies)

\* C28: a failure while a result is persisted ends save_to_postgresql: the
\* loop takes no further item and the store does not change any more; the
\* results persisted before the failure stay committed in the store, and
\* of the results after the failing one in the order of all_results there
\* is no identity row and no row in any table.
C28_FailureEndsPersistence ==
    /\ [](SaveFailed => pc \in {"save_failed", "reported"})
    /\ [][SaveFailed => UNCHANGED <<storeVars, seen, results>>]_vars
    /\ [](SaveFailed =>
            \A k \in 1 .. Len(Remaining) :
               ~HasIdentityRow(Remaining[k].results.connection_name))
    /\ [](\A t \in TableNames : \A i \in 1 .. Len(tables[t]) :
            \E c \in pdt_connections :
               c.id = tables[t][i].connection_id /\ c.connection_name \in seen)
    /\ [](\A k \in 1 .. Len(all_results) :
            SavedLine(all_results[k].results.connection_name) =>
               HoldsDependenciesOf(all_results[k].results))

\* the inserts of the first of two results without error failed: the
\* second result was never taken and has no identity row
C28_Witness ==
    /\ pc = "reported" /\ SaveFailed
    /\ Len(all_results) = 2 /\ Len(Remaining) = 1
    /\ all_results[1].results.error = "" /\ all_results[2].results.error = ""
    /\ HasIdentityRow(all_results[1].results.connection_name)
    /\ ~SavedLine(all_results[1].results.connection_name)
    /\ ~HasIdentityRow(all_results[2].results.connection_name)

\* the first of two results was committed and the second one failed: the
\* rows of the first are still in the store
C28_CommittedStays ==
    /\ pc = "reported" /\ SaveFailed
    /\ Len(all_results) = 2 /\ Remaining = <<>>
    /\ SavedLine(all_results[1].results.connection_name)
    /\ ListLen(all_results[1].results.dependencies) > 0
    /\ HoldsDependenciesOf(all_results[1].results)

\* save_to_postgresql printed that all the data are saved
SavedAllLine ==
    \E i \in 1 .. Len(console) :
        console[i] = Said("Dati salvati in PostgreSQL", "")

\* what run_analysis leaves when it returns: the last thing it printed
FinalReport == console[Len(console)]

\* C24: a failure of save_to_postgresql is never followed by one of the
\* lines that report saved data, the failure is printed, and a run that
\* failed ends in another way than a run whose data were committed, which
\* ends with the final report "ANALISI COMPLETATA" and a normal return.
C24_FailedSaveEndsDifferently ==
    /\ [](SaveFailed => ~SavedAllLine)
    /\ [](pc = "save_failed" => SaveFailed)
    /\ [](pc = "reported" /\ SaveFailed =>
            FinalReport # Said("ANALISI COMPLETATA", ""))

\* what holds of C24: the failure is printed and no line reports saved data
\* for the failing connection or for the whole run
C24_FailureIsPrinted ==
    /\ [](SaveFailed => ~SavedAllLine)
    /\ [](pc = "save_failed" => SaveFailed /\ ~SavedLine(results.connection_name))
    /\ [](pc = "saved" => ~SaveFailed /\ SavedAllLine)

\* the inserts failed after the rows of an earlier run were deleted, and
\* run_analysis ended with the final report of a completed analysis
C24_Witness ==
    /\ pc = "reported" /\ SaveFailed
    /\ deleted_count[DepsTable] >= 1
    /\ Findings(DepsTable) # <<>>
    /\ Held(DepsTable) = <<>>
    /\ ~SavedLine(results.connection_name)
    /\ FinalReport = Said("ANALISI COMPLETATA", "")

\* the writers of the report files have run for every result without
\* error (a writer that fails keeps its exception to itself), and the
\* summary report is written
OutputsWritten ==
    /\ apc = "summarized" /\ summary = SummaryOf(all_results)
    /\ \A k \in 1 .. Len(all_results) :
          all_results[k].results.error = "" =>
             \E i \in 1 .. Len(trace) :
                /\ trace[i].profile = all_results[k].profile
                /\ trace[i].step \in {"outputs", "outputs_failed"}

\* C23: the store is written only when the report files of every analyzed
\* profile and the summary report are written; no step of the persistence,
\* failing or not, changes these outputs; after a failure of the persistence
\* run_analysis goes on to its final report and returns.
C23_OutputsBeforeStoreAndRunEnds ==
    /\ [][storeVars' # storeVars =>
            (OutputsWritten /\ UNCHANGED <<trace, summary, all_results>>)]_vars
    /\ [](pc # "idle" => OutputsWritten)
    /\ [][pc # "idle" => UNCHANGED <<trace, summary, all_results>>]_vars
    /\ [](pc = "save_failed" => ENABLED final_report)
    /\ [][pc = "save_failed" => pc' = "reported"]_vars
    /\ (pc = "save_failed") ~> (pc = "reported")

\* the persistence of the second of two analyzed profiles failed after the
\* first one was committed: the outputs of both and the summary are there
\* and run_analysis printed its final report
C23_Witness ==
    /\ pc = "reported" /\ SaveFailed /\ OutputsWritten
    /\ Len(all_results) = 2 /\ Len(summary) = 2
    /\ \A k \in 1 .. 2 :
          /\ all_results[k].results.error = ""
          /\ \E i \in 1 .. Len(trace) :
                trace[i].profile = k /\ trace[i].step = "outputs"
    /\ Cardinality(pdt_connections) = 2
    /\ FinalReport = Said("ANALISI COMPLETATA", "")

\* analyze_database has returned for the profile at position k
AnalysisReturned(k) ==
    conn_no > k \/ (conn_no = k /\ apc \in {"loop", "summarized"})

\* get_db_connection returned the main connection of the profile
MainOpened(k) ==
    \E i \in 1 .. Len(trace) : trace[i] = Step(k, "connect", "opened")

\* connection.close() returned for the profile
MainClosed(k) ==
    \E i \in 1 .. Len(trace) : trace[i] = Step(k, "close", "closed")

\* the scope resolution of the profile opened the temporary connection and
\* left it without closing it
TempLeftOpen(k) ==
    \E i \in 1 .. Len(trace) : trace[i] = Step(k, "scope", "open")

\* C29: when the analysis of a profile has returned, the main connection
\* it opened was closed and its temporary connection was not left open,
\* whether the analysis succeeded or failed; no connection of a profile is
\* open when the next profile starts.
C29_ConnectionsClosedAtReturn ==
    \A k \in 1 .. Len(oracle_connections) :
        AnalysisReturned(k) =>
           /\ MainOpened(k) => MainClosed(k)
           /\ ~TempLeftOpen(k)

\* the classification of the first profile raised on its open connection,
\* the analysis returned without a close(), and the second profile connects
C29_Witness ==
    /\ conn_no = 2 /\ apc = "connect"
    /\ MainOpened(1) /\ ~MainClosed(1)
    /\ all_results[1].results.error # ""
    /\ \A i \in 1 .. Len(trace) : trace[i].step # "close"

-----------------------------------------------------------------------------
(* Properties of the report parser (SpecParse)                             *)

\* parse_ora2pg_report has read the textual report
TxtParsed == ppc \in {"parse_html", "returned"} /\ CanRead(txt_file)

\* the k-th pattern of the list matches somewhere in the textual report and
\* no pattern before it does
FirstMatching(patterns, capture, k) ==
    /\ re_search(patterns[k], capture, txt_file.content).found
    /\ \A j \in 1 .. (k - 1) :
          ~re_search(patterns[j], capture, txt_file.content).found

\* C17: after the textual report was parsed, the total cost is the number
\* captured by the first pattern of cost_patterns, in list order, that
\* matches somewhere in the text, and the migration level is the word
\* captured by the first pattern of level_patterns that matches, also when a
\* later pattern of the list matches earlier in the text.
C17_FirstPatternInListOrderWins ==
    TxtParsed =>
       /\ \A k \in 1 .. Len(cost_patterns) :
             FirstMatching(cost_patterns, "number", k) =>
                metrics.total_cost =
                   python_float(re_search(cost_patterns[k], "number",
                                          txt_file.content).group).value
       /\ \A k \in 1 .. Len(level_patterns) :
             FirstMatching(level_patterns, "word", k) =>
                metrics.migration_level =
                   re_search(level_patterns[k], "word", txt_file.content).group

\* "Total cost: 12.5" stands before "Total estimated cost: 9" in the text,
\* and the cost is 9
C17_Witness ==
    /\ TxtParsed
    /\ FirstMatching(cost_patterns, "number", 1)
    /\ re_search(cost_patterns[2], "number", txt_file.content).found
    /\ re_search(cost_patterns[2], "number", txt_file.content).start <
          re_search(cost_patterns[1], "number", txt_file.content).start
    /\ metrics.total_cost = FloatOf(9)

\* no textual report reaches the parser: the mode is html_only, or the text
\* command did not exit with 0, or its file does not exist or cannot be read
NoTextualReport ==
    \/ ora2pg_output_mode = "html_only"
    \/ returncode.txt # 0
    \/ ~(reports.txt.exists /\ reports.txt.readable)

\* no pattern of the list matches in the textual report on disk
NoneMatches(patterns, capture) ==
    \A k \in 1 .. Len(patterns) :
        ~re_search(patterns[k], capture, reports.txt.content).found

\* C18: when parse_ora2pg_report returns, the total cost is zero if no
\* textual report reached the parser or none of cost_patterns matches in
\* it, and the migration level is "Unknown" if no textual report reached
\* the parser or none of level_patterns matches; in every case the object
\* summary is what the HTML report gives (nothing if that file is missing
\* or unreadable).
C18_DefaultsWithoutTextualReport ==
    ppc = "returned" =>
       /\ (NoTextualReport \/ NoneMatches(cost_patterns, "number")) =>
             metrics.total_cost = FloatZero
       /\ (NoTextualReport \/ NoneMatches(level_patterns, "word")) =>
             metrics.migration_level = <<"U", "n", "k", "n", "o", "w", "n">>
       /\ metrics.ora2pg_object_summary =
             IF reports.html.exists /\ reports.html.readable
             THEN parse_object_summary_from_html(reports.html.content)
             ELSE <<>>

\* the text command exited with 1 and left a report behind; the estimate
\* has the defaults and the three entries of the HTML report
C18_Witness ==
    /\ ppc = "returned" /\ ora2pg_output_mode = "html_and_txt"
    /\ returncode = [html |-> 0, txt |-> 1]
    /\ reports.txt = SampleTxt /\ reports.html = SampleHtml
    /\ metrics.total_cost = FloatZero
    /\ metrics.migration_level = <<"U", "n", "k", "n", "o", "w", "n">>
    /\ Len(metrics.ora2pg_object_summary) = 3

\* parse_ora2pg_report has returned after reading the HTML report
HtmlParsed == ppc = "returned" /\ CanRead(html_file)

\* the first two cells of the table's header row name the object and its
\* number, in any case
NamesObjectAndNumber(table) ==
    /\ table # <<>> /\ Len(table[1]) >= 2
    /\ Contains(<<"o", "b", "j", "e", "c", "t">>, lower(strip(table[1][1].text)))
    /\ Contains(<<"n", "u", "m", "b", "e", "r">>, lower(strip(table[1][2].text)))

\* the table has at least six header cells
SixHeaders(table) == Len(HeadersOf(table)) >= 6

\* the position of the first table of the document among those at the
\* positions S (0 if S is empty)
First(S) == IF S = {} THEN 0 ELSE CHOOSE k \in S : \A j \in S : k <= j

\* the entries of the table at position k of the HTML report
EntriesOfTable(k) ==
    IF k = 0 THEN <<>> ELSE TableEntries(html_file.content[k])

\* C19 as stated: the entries are those of the first table of the document
\* whose first two header cells name object and number.
C19_FirstTableNamingObjectAndNumber ==
    HtmlParsed =>
       metrics.ora2pg_object_summary =
          EntriesOfTable(First({k \in 1 .. Len(html_file.content) :
                                   NamesObjectAndNumber(html_file.content[k])}))

\* C19 (amended): the entries are those of the first table of the document
\* that has at least six header cells and whose first two header cells name
\* object and number; no row of a later table, of a table with other
\* headers, or of a table with fewer than six header cells gives an entry.
C19_FirstTableWithSixHeaders ==
    HtmlParsed =>
       metrics.ora2pg_object_summary =
          EntriesOfTable(First({k \in 1 .. Len(html_file.content) :
                                   /\ NamesObjectAndNumber(html_file.content[k])
                                   /\ SixHeaders(html_file.content[k])}))

\* a table with other headers, the summary table and a second table with
\* matching headers: the three entries are those of the summary table
C19_Witness ==
    /\ HtmlParsed
    /\ html_file.content = << OtherTable, SummaryTable, UpperTable >>
    /\ metrics.ora2pg_object_summary = TableEntries(SummaryTable)
    /\ Len(metrics.ora2pg_object_summary) = 3

\* the text is a number: white space around, an optional sign, digits with at
\* most one point and at least one digit
IsNumberText(text) ==
    LET t == Unsigned(strip(text))
    IN  /\ \E i \in 1 .. Len(t) : IsDigit(t[i])
        /\ \A i \in 1 .. Len(t) : IsDigit(t[i]) \/ t[i] = "."
        /\ Cardinality({i \in 1 .. Len(t) : t[i] = "."}) <= 1

\* the body rows of the table that have at least six td cells
SixCellRows(table) ==
    SelectSeq(Tail(table), LAMBDA row : Len(CellsOf(row, "td")) >= 6)

\* the entries of the rows themselves, without those of their procedures
MainEntries(entries) == SelectSeq(entries, LAMBDA e : e.detail_type = "MAIN")

\* the HTML report that was parsed holds the summary table alone
OnlySummaryTable ==
    /\ HtmlParsed
    /\ Len(html_file.content) = 1
    /\ IsSummaryTable(html_file.content[1])

\* the entry is the one of the row: its name, and zero in every numeric
\* field whose cell is empty or not a number
EntryOfRow(entry, cols) ==
    /\ entry.object_name = strip(cols[1].text)
    /\ ~IsNumberText(cols[2].text) => entry.object_number = 0
    /\ ~IsNumberText(cols[3].text) => entry.invalid_count = 0
    /\ ~IsNumberText(cols[4].text) => entry.estimated_cost = FloatZero

\* C20: the body rows of the summary table that have at least six cells, and
\* only they, produce entries, one main entry each and in the order of the
\* rows; a numeric cell that is empty or not a number gives zero in its
\* field, and the rows after it are processed all the same.
C20_SixCellRowsWithZeroForNonNumbers ==
    OnlySummaryTable =>
       /\ Len(MainEntries(metrics.ora2pg_object_summary)) =
             Len(SixCellRows(html_file.content[1]))
       /\ \A k \in 1 .. Len(SixCellRows(html_file.content[1])) :
             k <= Len(MainEntries(metrics.ora2pg_object_summary)) =>
                EntryOfRow(MainEntries(metrics.ora2pg_object_summary)[k],
                           CellsOf(SixCellRows(html_file.content[1])[k], "td"))

\* a row whose three numeric cells read "nan", followed by a row with the
\* count 7: the first entry has the counts 0 and the cost NaN, the second
\* row is processed
C20_Witness ==
    /\ OnlySummaryTable
    /\ Len(MainEntries(metrics.ora2pg_object_summary)) = 2
    /\ CellsOf(html_file.content[1][2], "td")[4].text = <<"n", "a", "n">>
    /\ metrics.ora2pg_object_summary[1].object_number = 0
    /\ metrics.ora2pg_object_summary[1].invalid_count = 0
    /\ metrics.ora2pg_object_summary[1].estimated_cost = NaN
    /\ metrics.ora2pg_object_summary[2].object_number = 7

\* the first position from i on whose character is not of the class, one
\* past the end of s when every character from i on is of the class
NextNot(s, i, Of(_)) ==
    IF i > Len(s) THEN i
    ELSE CHOOSE j \in i .. (Len(s) + 1) :
            /\ j = Len(s) + 1 \/ ~Of(s[j])
            /\ \A x \in i .. (j - 1) : Of(s[x])

NoOccurrence == [name |-> <<>>, number |-> <<>>, end |-> 0]

\* the occurrence of `qualified-identifier: number` whose identifier ends
\* before j, whose colon is at k and whose number starts at m with whole
\* part up to w and, after a point, fraction up to f
OccurrenceOf(s, i, j, k, m, w, f) ==
    IF k > Len(s) \/ s[k] # ":" \/ w = m THEN NoOccurrence
    ELSE [name |-> SubSeq(s, i, j - 1),
          number |-> SubSeq(s, m,
                            (IF w <= Len(s) /\ s[w] = "." /\ f > w + 1
                             THEN f ELSE w) - 1),
          end |-> IF w <= Len(s) /\ s[w] = "." /\ f > w + 1 THEN f ELSE w]

OccurrenceNumber(s, i, j, k, m, w) ==
    OccurrenceOf(s, i, j, k, m, w, NextNot(s, w + 1, IsDigit))

OccurrenceColon(s, i, j, k, m) ==
    OccurrenceNumber(s, i, j, k, m, NextNot(s, m, IsDigit))

OccurrenceName(s, i, j, k) ==
    OccurrenceColon(s, i, j, k, NextNot(s, k + 1, IsSpace))

\* the occurrence that starts at position i of s: an identifier of letters,
\* digits, underscores and points that starts with a letter or an
\* underscore, a colon with optional white space around it, and a number
OccurrenceAt(s, i) ==
    IF ~(IsLetter(s[i]) \/ s[i] = "_") THEN NoOccurrence
    ELSE OccurrenceName(s, i, NextNot(s, i + 1, IsIdent),
                        NextNot(s, NextNot(s, i + 1, IsIdent), IsSpace))

\* the occurrences in s from position i on, from left to right, each one
\* starting after the end of the one before
RECURSIVE Occurrences(_, _)
RECURSIVE OccurrencesAfter(_, _, _)
OccurrencesAfter(s, i, occurrence) ==
    IF occurrence.end > 0 THEN << occurrence >> \o Occurrences(s, occurrence.end)
    ELSE Occurrences(s, i + 1)

Occurrences(s, i) ==
    IF i > Len(s) THEN <<>> ELSE OccurrencesAfter(s, i, OccurrenceAt(s, i))

\* the occurrences a details text is searched for
ExpectedOccurrences(details) ==
    IF details = <<>> \/ details = <<"-">> THEN <<>> ELSE Occurrences(details, 1)

\* the number read as a float: the digits before and after the point
NumberValue(number, point) ==
    IF point = 0 THEN Decimal(FALSE, number, <<>>)
    ELSE Decimal(FALSE, SubSeq(number, 1, point - 1),
                 SubSeq(number, point + 1, Len(number)))

\* the position in entries of the MAIN entry number k, one past the end
\* when there are fewer than k
MainAt(entries, k) ==
    IF k > Len(MainEntries(entries)) THEN Len(entries) + 1
    ELSE CHOOSE i \in 1 .. Len(entries) :
            /\ entries[i].detail_type = "MAIN"
            /\ Cardinality({x \in 1 .. i : entries[x].detail_type = "MAIN"}) = k

\* the entries between the MAIN entry number k and the next MAIN entry
ChildrenOf(entries, k) ==
    SubSeq(entries, MainAt(entries, k) + 1, MainAt(entries, k + 1) - 1)

\* the children are the PROCEDURE entries of the occurrences, in order
ChildrenAre(children, object_name, occurrences) ==
    /\ Len(children) = Len(occurrences)
    /\ \A n \in 1 .. Len(occurrences) :
          n <= Len(children) =>
             /\ children[n].detail_type = "PROCEDURE"
             /\ children[n].object_name = object_name
             /\ children[n].procedure_name = occurrences[n].name
             /\ children[n].procedure_cost =
                   NumberValue(occurrences[n].number,
                               IndexIn(".", occurrences[n].number))
             /\ children[n].estimated_cost = children[n].procedure_cost

\* C21: for every row of the summary table with at least six cells, the
\* PROCEDURE entries after its MAIN entry are one per occurrence of
\* `qualified-identifier: number` in its details, in the order of the
\* occurrences, with the row's object name, the identifier as the procedure
\* name and the number as the cost; none when the details are empty or "-".
C21_OneProcedurePerOccurrence ==
    OnlySummaryTable =>
       \A k \in 1 .. Len(SixCellRows(html_file.content[1])) :
          k <= Len(MainEntries(metrics.ora2pg_object_summary)) =>
             ChildrenAre(
                ChildrenOf(metrics.ora2pg_object_summary, k),
                strip(CellsOf(SixCellRows(html_file.content[1])[k], "td")[1].text),
                ExpectedOccurrences(
                   strip(CellsOf(SixCellRows(html_file.content[1])[k], "td")[6].text)))

\* the details "pkg.proc_a: 3, pkg.proc_b: 4.5" gave pkg.proc_a with 3.0 and
\* pkg.proc_b with 4.5, and the row before it, with the details "-", gave
\* no PROCEDURE entry
C21_Witness ==
    /\ OnlySummaryTable
    /\ Len(metrics.ora2pg_object_summary) = 4
    /\ metrics.ora2pg_object_summary[1].detail_type = "MAIN"
    /\ metrics.ora2pg_object_summary[1].details = <<"-">>
    /\ metrics.ora2pg_object_summary[2].detail_type = "MAIN"
    /\ metrics.ora2pg_object_summary[2].details = <<"p", "k", "g", ".", "p", "r", "o", "c", "_", "a", ":", " ", "3", ",", " ", "p", "k", "g", ".", "p", "r", "o", "c", "_", "b", ":", " ", "4", ".", "5">>
    /\ metrics.ora2pg_object_summary[3].detail_type = "PROCEDURE"
    /\ metrics.ora2pg_object_summary[3].object_name = <<"P", "A", "C", "K", "A", "G", "E", " ", "B", "O", "D", "Y">>
    /\ metrics.ora2pg_object_summary[3].procedure_name = <<"p", "k", "g", ".", "p", "r", "o", "c", "_", "a">>
    /\ FloatStr(metrics.ora2pg_object_summary[3].procedure_cost) = <<"3", ".", "0">>
    /\ metrics.ora2pg_object_summary[4].procedure_name = <<"p", "k", "g", ".", "p", "r", "o", "c", "_", "b">>
    /\ FloatStr(metrics.ora2pg_object_summary[4].procedure_cost) = <<"4", ".", "5">>

\* the MAIN entry carries the cells of the row: the name, the comments and
\* the details without the white space around them, the two counts when
\* their cells hold digits, the cost when its cell holds an unsigned number
CarriesRow(entry, cols) ==
    /\ entry.detail_type = "MAIN"
    /\ entry.object_name = strip(cols[1].text)
    /\ AllDigits(strip(cols[2].text)) /\ strip(cols[2].text) # <<>> =>
          entry.object_number = DigitsValue(strip(cols[2].text))
    /\ AllDigits(strip(cols[3].text)) /\ strip(cols[3].text) # <<>> =>
          entry.invalid_count = DigitsValue(strip(cols[3].text))
    /\ IsNumberText(cols[4].text) /\ ~Signed(strip(cols[4].text)) =>
          entry.estimated_cost =
             NumberValue(strip(cols[4].text), IndexIn(".", strip(cols[4].text)))
    /\ entry.comments = strip(cols[5].text)
    /\ entry.details = strip(cols[6].text)
    /\ entry.procedure_name = NoText /\ entry.procedure_cost = NoFloat

\* C22: every row of the summary table with at least six cells gives
\* exactly one MAIN entry, in the order of the rows, that carries the row's
\* name, count, invalid count, cost, comments and details text, whether the
\* search of its details finds procedures or none; every other entry is a
\* PROCEDURE entry.
C22_OneMainEntryPerQualifyingRow ==
    OnlySummaryTable =>
       /\ Len(MainEntries(metrics.ora2pg_object_summary)) =
             Len(SixCellRows(html_file.content[1]))
       /\ \A k \in 1 .. Len(SixCellRows(html_file.content[1])) :
             k <= Len(MainEntries(metrics.ora2pg_object_summary)) =>
                CarriesRow(MainEntries(metrics.ora2pg_object_summary)[k],
                           CellsOf(SixCellRows(html_file.content[1])[k], "td"))
       /\ \A i \in 1 .. Len(metrics.ora2pg_object_summary) :
             metrics.ora2pg_object_summary[i].detail_type \in {"MAIN", "PROCEDURE"}

\* a row whose details hold two procedures, then a row whose details
\* "n/a" hold none: one MAIN entry each, two PROCEDURE entries for the first
C22_Witness ==
    /\ OnlySummaryTable
    /\ Len(SixCellRows(html_file.content[1])) = 2
    /\ Len(metrics.ora2pg_object_summary) = 4
    /\ metrics.ora2pg_object_summary[1].detail_type = "MAIN"
    /\ metrics.ora2pg_object_summary[1].object_number = 2
    /\ metrics.ora2pg_object_summary[2].detail_type = "PROCEDURE"
    /\ metrics.ora2pg_object_summary[3].detail_type = "PROCEDURE"
    /\ metrics.ora2pg_object_summary[4].detail_type = "MAIN"
    /\ metrics.ora2pg_object_summary[4].details = <<"n", "/", "a">>

====
